---- MODULE Spec2Model ----
(***************************************************************************)
(* A model of the marathon durable workflow engine: the in-memory state    *)
(* store (event log, workflow and activity state, idempotency keys,        *)
(* timers), the in-memory task queue, the engine (start, cancel, workflow  *)
(* driver, timer scanner) and the worker (activity execution).             *)
(*                                                                         *)
(* Every store method of InMemoryStore runs under s.mu, so a store call is *)
(* one atomic step.  SpecStore models the mutex itself for AppendEvent;    *)
(* the other specifications use the store calls as atomic operators.       *)
(***************************************************************************)
EXTENDS Integers, Sequences, FiniteSets, TLC

\* ------------------------------------------------------------------ bounds
MaxStarts == 2
NumAppenders == 2
MaxLog == 3
MaxTasks == 1
NumConsumers == 2
MaxTime == 3
VisibilityTimeout == 1
MaxDeliveries == 2

\* ------------------------------------------------------------- vocabulary
WorkflowIDs == 1..MaxStarts
Appenders == 1..NumAppenders
StartCalls == 1..MaxStarts
\* One caller issues CancelWorkflow, at any moment and for any workflowID.
CancelCalls == {"canceler"}
TaskIDs == 1..MaxTasks
Consumers == 1..NumConsumers
Times == 0..MaxTime
NoWorkflow == 0
NoTask == 0
\* the buffer of a queue's channel: make(chan *Task, 100)
QueueCap == 100
NoKey == ""
\* One activity ID, scheduled by workflow 1; the activity's possible outputs.
ActivityIDs == {"a1"}
Outputs == {"o1", "o2"}
\* Three poll loops on one queue and one store.  The registries of w1 and w2
\* hold the activity "echo"; w3 runs with a registry that lacks it.
Workers == {"w1", "w2", "w3"}
Registry(w) == IF w = "w3" THEN {} ELSE {"echo"}
\* One timer, persisted by one Sleep call of workflow 1's program.
TimerIDs == {"tm1"}
NoTimerID == "-"
\* Two engines on one store: e1 is constructed at the start and may be stopped;
\* e2 is constructed later and keeps running.
Engines == {"e1", "e2"}
Stoppable == {"e1"}
\* The errors the activity's Execute can return, and the retry policy "echo"
\* is registered with (Register keeps a policy that is given).
Errors == {"transient", "fatal"}
RetryPolicy == [MaxAttempts |-> 1, NonRetryableErrors |-> {"fatal"}]
\* RetryPolicy.IsRetryable: the error string is none of NonRetryableErrors.
IsRetryable(policy, err) == err \notin policy.NonRetryableErrors
\* pollOnce: requeue := task.Attempts < 3
WorkerMaxAttempts == 3
Keys == {"k1"}

StatusPending == "pending"
StatusRunning == "running"
StatusCompleted == "completed"
StatusFailed == "failed"
StatusCanceled == "canceled"

EventWorkflowStarted == "workflow_started"
EventWorkflowCompleted == "workflow_completed"
EventWorkflowFailed == "workflow_failed"
EventWorkflowCanceled == "workflow_canceled"
EventActivityScheduled == "activity_scheduled"
EventActivityStarted == "activity_started"
EventActivityCompleted == "activity_completed"
EventActivityFailed == "activity_failed"
EventActivityRetrying == "activity_retrying"
EventTimerScheduled == "timer_scheduled"
EventTimerFired == "timer_fired"
EventSignalReceived == "signal_received"

IsTerminal(s) == s \in {StatusCompleted, StatusFailed, StatusCanceled}

\* NewEvent: an event not yet appended carries SequenceNum 0; Ref is the
\* activity_id / timer_id of its Data ("-" when it has none).
NewEvent(type, ref) == [Type |-> type, SequenceNum |-> 0, Ref |-> ref]

\* The absent entry of InMemoryStore.workflows, and a stored WorkflowState.
\* LastEventSeq has the zero value the engine's struct literal leaves it with;
\* neither the engine nor InMemoryStore assigns it.
NoState == [Status |-> "none", Output |-> "-", LastEventSeq |-> 0]
WorkflowState(status, output) == [Status |-> status, Output |-> output, LastEventSeq |-> 0]

VARIABLES
  mu,        \* InMemoryStore.mu: 0 when free, else the appender holding it
  events,    \* InMemoryStore.events: workflowID -> sequence of events
  workflows, \* InMemoryStore.workflows: workflowID -> WorkflowState (NoState: absent)
  idemKeys,  \* InMemoryStore.idemKeys: idempotency key -> workflowID (NoWorkflow: absent)
  idClock,   \* the clock reading generateWorkflowID formats; every reading is later than the last
  spc,       \* per StartWorkflowWithOptions call: its position
  skey,      \* per start call: opts.IdempotencyKey
  sid,       \* per start call: the workflowID generated at line 80
  sret,      \* per start call: the workflowID returned (NoWorkflow: none, or an error)
  dpc,       \* per workflow: position of its executeWorkflow goroutine
  dst,       \* per workflow: the driver's local workflowState
  cpc,       \* per CancelWorkflow call: its position
  cwf,       \* per cancel call: the workflowID argument
  cst,       \* per cancel call: its local workflowState
  cres,      \* per cancel call: "none", "ok" or the error returned
  now,       \* time.Now(), in ticks
  tasks,     \* the *Task objects by task ID: [Attempts, ...] (NoTaskRec: not created)
  ready,     \* InMemoryQueue.queues[name]: the channel's buffer, a sequence of task IDs
  pending,   \* InMemoryQueue.pending[name]: task ID -> pendingRecord (NoPending: absent)
  dlq,       \* InMemoryQueue.dlq[name]
  enableDLQ, \* Options.EnableDLQ
  held,      \* per queue consumer: the task ID its last Dequeue returned (NoTask: none)
  qres,      \* per queue consumer: what its last Ack/Nack did ("none", "ok", "not_found",
             \* and for Nack "requeued", "ctx_error", "dropped")
  lease,     \* history: task ID -> the visibility deadline its last Dequeue gave it, open
             \* until the first Ack or Nack of that task ID
  activities, \* InMemoryStore.activities: activityID -> ActivityState (NoActivity: absent)
  epc,       \* per ExecuteActivityWithID call (one per task ID): its position
  wpc,       \* per worker poll loop: its position in pollOnce / executeActivity
  wtask,     \* per worker: the task its Dequeue returned
  wact,      \* per worker: its local activityState
  wres,      \* per worker: the TaskResult [Success, Output] of executeActivity
  schedLast, \* history: the last ScheduleTimerCall: its arguments, the record it found,
             \* and a bit that flips at every call; NoSchedule before the first
  storeKind, \* which Store the engines share: "inmemory" ignores the ctx of a call,
             \* "redis" fails a call whose ctx is canceled.  The two differ only once
             \* a ctx is canceled, so the kind is drawn at the first Engine.Stop
             \* ("undetermined" until then).
  timers,    \* InMemoryStore.timers[workflow 1]: timerID -> TimerRecord (NoTimer: absent)
  estate,    \* per engine: "none" (not constructed), "running", "stopped" (timerCtx canceled)
  scpc,      \* per engine: position of its scanTimersLoop goroutine
  scdue,     \* per engine: the due records of the current scan not yet handled
  sccur,     \* per engine: the timer whose MarkTimerFired returned true
  slpc,      \* position of the Sleep call and of its polling goroutine
  markCalls, \* history: timerID -> number of MarkTimerFired calls the store has run
  marked,    \* history: timerID -> number of MarkTimerFired calls that returned true
  wperr,     \* history, per poll loop: the delivery (task.Attempts) during which a store
             \* write of the loop last returned an error, 0 when none did
  wctx,      \* per poll loop: wfCtx of the execution in progress: "live", "canceled", or
             \* "live_owed" (history: live, and Canceled was stored during the execution)
  fut,       \* the future ExecuteActivityWithID returned for activity "a1"
  rpc,       \* a second ExecuteActivityWithID call with the ID "a1": its position
  running,   \* Worker.running of the worker whose poll loops are LifeLoops
  stopCh,    \* that worker's stopCh: "open" or "closed"
  wloop,     \* per poll loop, its goroutine: "off" (not launched, or returned), "select"
             \* (at the select of pollLoop once pollOnce is over), "poll" (in pollOnce)
  lpc,       \* the caller of Start and Stop: "idle", or "stop_wait" (Stop waits for wg)
  lbacklog,  \* history: the number of tasks in the ready buffer when Start last launched loops
  lret,      \* what the last Start or Stop call did: "none", "started", "already_running",
             \* "stopped", "noop", or "panic" (close of a closed channel)
  gpc,       \* per caller of fut.Get: "idle" or "select" (blocked in Get's select)
  gctx,      \* per caller: the ctx it passed to Get: "live" or "done"
  gret,      \* per caller: what its last Get returned, NoReturn before the first
  stpc,      \* StreamEvents: "idle" (not called), "loop" (in its select loop), "returned"
  stsince,   \* StreamEvents: its local `since`
  stout,     \* StreamEvents: the frames written to the ResponseWriter so far
  stfrom,    \* history: the value `since` had when the loop was entered
  apc,       \* per concurrent AppendEvent caller: its position in AppendEvent
  aev,       \* per caller: [w, e] the event being appended
  alocal,    \* per caller: the local `events` slice read at line 62
  appended   \* history: workflowID -> number of AppendEvent calls that stored an event

appenderVars == <<apc, aev, alocal, appended>>
startVars == <<idClock, spc, skey, sid, sret>>
driverVars == <<dpc, dst>>
cancelVars == <<cpc, cwf, cst, cres>>
engineVars == <<startVars, driverVars, cancelVars>>
queueVars == <<now, tasks, ready, pending, dlq, enableDLQ, lease>>
consumerVars == <<held, qres>>
workerVars == <<activities, epc, wpc, wtask, wact, wres, wperr, wctx>>
streamVars == <<stpc, stsince, stout, stfrom>>
futureVars == <<fut>>
getterVars == <<gpc, gctx, gret>>
recallVars == <<rpc>>
lifeVars == <<running, stopCh, wloop, lpc, lret, lbacklog>>
timerVars == <<storeKind, timers, estate, scpc, scdue, sccur, slpc, markCalls, marked,
               schedLast>>
vars == <<mu, events, workflows, idemKeys, appenderVars, engineVars, queueVars, consumerVars,
          workerVars, timerVars, streamVars, futureVars, getterVars, lifeVars, recallVars>>

\* What the step-by-step AppendEvent callers leave alone, and what the engine does.
outsideAppenders == <<workflows, idemKeys, engineVars, queueVars, consumerVars, workerVars,
                      timerVars,
                   streamVars, futureVars, getterVars, lifeVars, recallVars>>
outsideEngine == <<mu, appenderVars, queueVars, consumerVars, workerVars, timerVars,
                   streamVars, futureVars, getterVars, lifeVars, recallVars>>
outsideQueue == <<mu, events, workflows, idemKeys, appenderVars, engineVars, workerVars,
                  timerVars,
                   streamVars, futureVars, getterVars, lifeVars, recallVars>>
outsideExec == <<mu, workflows, idemKeys, appenderVars, engineVars, consumerVars, now, enableDLQ,
                   timerVars,
                   streamVars, getterVars, lifeVars, recallVars>>
outsideExec_NoLife == <<mu, workflows, idemKeys, appenderVars, engineVars, consumerVars, now,
                       enableDLQ, timerVars, streamVars, gpc, gctx, gret>>
outsideWorker == <<outsideExec, futureVars, wperr, wctx>>
outsideTimers == <<mu, workflows, idemKeys, appenderVars, engineVars, queueVars, consumerVars,
                   workerVars, schedLast,
                   streamVars, futureVars, getterVars, lifeVars, recallVars>>

\* ------------------------------------------------------------------ store
\* AppendEvent lines 62-69 applied to a log: the sequence number is
\* len(events)+1 and a copy of the event is appended.
WithSeq(log, e) == Append(log, [e EXCEPT !.SequenceNum = Len(log) + 1])

\* AppendEvent as one atomic store call (the body runs under s.mu).
AppendEvent(ev, w, e) == [ev EXCEPT ![w] = WithSeq(ev[w], e)]

\* GetEventsSince that also returns the event numbered `since`.
GetEventsSince_Inclusive(ev, w, since) == SelectSeq(ev[w], LAMBDA e : e.SequenceNum >= since)

\* GetEventsSince: the events with SequenceNum > since, in log order.
GetEventsSince(ev, w, since) == SelectSeq(ev[w], LAMBDA e : e.SequenceNum > since)

\* GetWorkflowState returns an error when the entry is absent.
WorkflowExists(wfs, w) == w \in WorkflowIDs /\ wfs[w] # NoState

\* SaveWorkflowState: full-record upsert.
SaveWorkflowState(wfs, w, st) == [wfs EXCEPT ![w] = st]

\* MapIdempotencyKeyToWorkflow that overwrites an existing mapping.
MapIdempotencyKeyToWorkflow_Overwrite(keys, key, w) ==
  [created |-> TRUE, existing |-> NoWorkflow, keys |-> [keys EXCEPT ![key] = w]]

\* MapIdempotencyKeyToWorkflow that reports the existing mapping and then
\* replaces it.
MapIdempotencyKeyToWorkflow_Remaps(keys, key, w) ==
  [created |-> keys[key] = NoWorkflow,
   existing |-> keys[key],
   keys |-> [keys EXCEPT ![key] = w]]

\* MapIdempotencyKeyToWorkflow: create-if-absent; (created, existing) and the new map.
MapIdempotencyKeyToWorkflow(keys, key, w) ==
  IF keys[key] # NoWorkflow
    THEN [created |-> FALSE, existing |-> keys[key], keys |-> keys]
    ELSE [created |-> TRUE, existing |-> NoWorkflow, keys |-> [keys EXCEPT ![key] = w]]

\* The absent entry of InMemoryStore.activities, and a stored ActivityState.
NoActivity == [Status |-> "none", Output |-> "-", Attempt |-> 0]
ActivityState(status, output, attempt) ==
  [Status |-> status, Output |-> output, Attempt |-> attempt]

\* SaveActivityState: full-record upsert of a copy, keyed by ActivityID.
SaveActivityState(acts, a, st) == [acts EXCEPT ![a] = st]

\* GetActivityState returns an error when the entry is absent.
ActivityExists(acts, a) == acts[a] # NoActivity

\* The absent entry of InMemoryStore.timers, and the store's timer methods.
NoTimer == [exists |-> FALSE, FireAt |-> 0, Fired |-> FALSE]

\* ScheduleTimer as an upsert: the record is written whether or not it exists.
ScheduleTimer_Overwrites(tms, tm, fireAt) ==
  [tms EXCEPT ![tm] = [exists |-> TRUE, FireAt |-> fireAt, Fired |-> FALSE]]

\* ScheduleTimer: create-if-absent; an existing record is left as it is.
ScheduleTimer(tms, tm, fireAt) ==
  IF tms[tm].exists
    THEN tms
    ELSE [tms EXCEPT ![tm] = [exists |-> TRUE, FireAt |-> fireAt, Fired |-> FALSE]]

\* ListDueTimers: the records with !Fired && !FireAt.After(now).
ListDueTimers(tms, t) ==
  {tm \in TimerIDs : tms[tm].exists /\ ~tms[tm].Fired /\ tms[tm].FireAt <= t}

\* MarkTimerFired that reports a transition on every call.
MarkTimerFired_AlwaysTransitions(tms, tm) ==
  [transitioned |-> TRUE, timers |-> [tms EXCEPT ![tm].Fired = TRUE]]

\* MarkTimerFired: (false, error) for an unknown timer, false for a fired
\* one, else Fired becomes true and the call reports the transition.
MarkTimerFired(tms, tm) ==
  IF tms[tm].exists /\ ~tms[tm].Fired
    THEN [transitioned |-> TRUE, timers |-> [tms EXCEPT ![tm].Fired = TRUE]]
    ELSE [transitioned |-> FALSE, timers |-> tms]

StoreInit ==
  /\ mu = 0
  /\ timers = [tm \in TimerIDs |-> NoTimer]
  /\ activities = [a \in ActivityIDs |-> NoActivity]
  /\ events = [w \in WorkflowIDs |-> <<>>]
  /\ workflows = [w \in WorkflowIDs |-> NoState]
  /\ idemKeys = [k \in Keys |-> NoWorkflow]

\* ------------------------------------------- AppendEvent, step by step
AppenderInit ==
  /\ apc = [c \in Appenders |-> "idle"]
  /\ aev = [c \in Appenders |-> [w |-> NoWorkflow, e |-> NewEvent(EventSignalReceived, "-")]]
  /\ alocal = [c \in Appenders |-> <<>>]
  /\ appended = [w \in WorkflowIDs |-> 0]

\* A caller invokes store.AppendEvent(NewEvent(w, type, ...)).
AppendCall(c) ==
  /\ apc[c] = "idle"
  /\ \E w \in WorkflowIDs :
       /\ Len(events[w]) < MaxLog
       /\ aev' = [aev EXCEPT ![c] = [w |-> w, e |-> NewEvent(EventSignalReceived, "-")]]
  /\ apc' = [apc EXCEPT ![c] = "lock"]
  /\ UNCHANGED <<mu, events, alocal, appended, outsideAppenders>>

\* s.mu.Lock() taken without waiting for the holder: the race a missing lock gives.
AppendLock_NoMutex(c) ==
  /\ apc[c] = "lock"
  /\ mu' = c
  /\ apc' = [apc EXCEPT ![c] = "read"]
  /\ UNCHANGED <<events, aev, alocal, appended, outsideAppenders>>

\* s.mu.Lock()
AppendLock(c) ==
  /\ apc[c] = "lock"
  /\ mu = 0
  /\ mu' = c
  /\ apc' = [apc EXCEPT ![c] = "read"]
  /\ UNCHANGED <<events, aev, alocal, appended, outsideAppenders>>

\* events := s.events[event.WorkflowID]
AppendRead(c) ==
  /\ apc[c] = "read"
  /\ alocal' = [alocal EXCEPT ![c] = events[aev[c].w]]
  /\ apc' = [apc EXCEPT ![c] = "write"]
  /\ UNCHANGED <<mu, events, aev, appended, outsideAppenders>>

\* event.SequenceNum = len(events)+1; s.events[w] = append(events, &eventCopy)
AppendWrite(c) ==
  /\ apc[c] = "write"
  /\ events' = [events EXCEPT ![aev[c].w] = WithSeq(alocal[c], aev[c].e)]
  /\ alocal' = [alocal EXCEPT ![c] = <<>>]
  /\ appended' = [appended EXCEPT ![aev[c].w] = @ + 1]
  /\ apc' = [apc EXCEPT ![c] = "unlock"]
  /\ UNCHANGED <<mu, aev, outsideAppenders>>

\* defer s.mu.Unlock()
AppendUnlock(c) ==
  /\ apc[c] = "unlock"
  /\ mu' = 0
  /\ apc' = [apc EXCEPT ![c] = "idle"]
  /\ UNCHANGED <<events, aev, alocal, appended, outsideAppenders>>

\* ------------------------------------------ Engine.StartWorkflowWithOptions
StartInit ==
  /\ idClock = 0
  /\ spc = [c \in StartCalls |-> "idle"]
  /\ skey = [c \in StartCalls |-> NoKey]
  /\ sid = [c \in StartCalls |-> NoWorkflow]
  /\ sret = [c \in StartCalls |-> NoWorkflow]

\* Lines 74-92: the registry lookup (an unknown name returns an error before
\* anything is stored), generateWorkflowID and, with a key, the mapping of the
\* key: a key that is already mapped returns the existing workflowID.
StartCall(c) ==
  /\ spc[c] = "idle"
  /\ \E key \in Keys \cup {NoKey}, known \in BOOLEAN :
       /\ skey' = [skey EXCEPT ![c] = key]
       /\ IF ~known
            THEN /\ spc' = [spc EXCEPT ![c] = "failed"]
                 /\ UNCHANGED <<idClock, sid, sret, idemKeys>>
            ELSE /\ idClock' = idClock + 1
                 /\ sid' = [sid EXCEPT ![c] = idClock + 1]
                 /\ IF key = NoKey
                      THEN /\ spc' = [spc EXCEPT ![c] = "save"]
                           /\ UNCHANGED <<sret, idemKeys>>
                      ELSE LET r == MapIdempotencyKeyToWorkflow(idemKeys, key, idClock + 1) IN
                             /\ idemKeys' = r.keys
                             /\ IF r.created
                                  THEN /\ spc' = [spc EXCEPT ![c] = "save"]
                                       /\ UNCHANGED sret
                                  ELSE /\ spc' = [spc EXCEPT ![c] = "done"]
                                       /\ sret' = [sret EXCEPT ![c] = r.existing]
  /\ UNCHANGED <<events, workflows, driverVars, cancelVars, outsideEngine>>

\* Lines 95-107: save the initial Pending state.
StartSaveState(c) ==
  /\ spc[c] = "save"
  /\ workflows' = SaveWorkflowState(workflows, sid[c], WorkflowState(StatusPending, "-"))
  /\ spc' = [spc EXCEPT ![c] = "append"]
  /\ UNCHANGED <<idClock, skey, sid, sret, events, idemKeys, driverVars, cancelVars, outsideEngine>>

\* Lines 110-125: record workflow_started, go e.executeWorkflow(...) and
\* return the workflowID.
StartAppendEvent(c) ==
  /\ spc[c] = "append"
  /\ events' = AppendEvent(events, sid[c], NewEvent(EventWorkflowStarted, "-"))
  /\ dpc' = [dpc EXCEPT ![sid[c]] = "get"]
  /\ sret' = [sret EXCEPT ![c] = sid[c]]
  /\ spc' = [spc EXCEPT ![c] = "done"]
  /\ UNCHANGED <<idClock, skey, sid, dst, workflows, idemKeys, cancelVars, outsideEngine>>

\* ------------------------------------------------- Engine.executeWorkflow
DriverInit ==
  /\ dpc = [w \in WorkflowIDs |-> "none"]
  /\ dst = [w \in WorkflowIDs |-> NoState]

\* executeWorkflow without the Canceled test of lines 179-182.
DriverGetState_IgnoresCanceled(w) ==
  /\ dpc[w] = "get"
  /\ LET st == workflows[w] IN
       IF st.Status # StatusRunning
         THEN /\ dst' = [dst EXCEPT ![w] = [st EXCEPT !.Status = StatusRunning]]
              /\ dpc' = [dpc EXCEPT ![w] = "save_running"]
         ELSE /\ dst' = [dst EXCEPT ![w] = st]
              /\ dpc' = [dpc EXCEPT ![w] = "execute"]
  /\ UNCHANGED <<events, workflows, idemKeys, startVars, cancelVars, outsideEngine>>

\* Lines 178-186: read the state; return if Canceled; otherwise set the local
\* copy to Running when it is not Running yet.
DriverGetState(w) ==
  /\ dpc[w] = "get"
  /\ LET st == workflows[w] IN
       IF st.Status = StatusCanceled
         THEN /\ dpc' = [dpc EXCEPT ![w] = "done"]
              /\ UNCHANGED dst
         ELSE IF st.Status # StatusRunning
           THEN /\ dst' = [dst EXCEPT ![w] = [st EXCEPT !.Status = StatusRunning]]
                /\ dpc' = [dpc EXCEPT ![w] = "save_running"]
           ELSE /\ dst' = [dst EXCEPT ![w] = st]
                /\ dpc' = [dpc EXCEPT ![w] = "execute"]
  /\ UNCHANGED <<events, workflows, idemKeys, startVars, cancelVars, outsideEngine>>

\* Line 185: e.stateStore.SaveWorkflowState(ctx, workflowState)
DriverSaveRunning(w) ==
  /\ dpc[w] = "save_running"
  /\ workflows' = SaveWorkflowState(workflows, w, dst[w])
  /\ dpc' = [dpc EXCEPT ![w] = "execute"]
  /\ UNCHANGED <<dst, events, idemKeys, startVars, cancelVars, outsideEngine>>

\* Lines 196-216 up to the event: the program returns (output, err) and the
\* local copy gets its final Status and Output.
DriverProgramReturns(w) ==
  /\ dpc[w] = "execute"
  /\ \E ok \in BOOLEAN :
       dst' = [dst EXCEPT ![w] =
                 IF ok THEN WorkflowState(StatusCompleted, "out")
                       ELSE WorkflowState(StatusFailed, "-")]
  /\ dpc' = [dpc EXCEPT ![w] = "final_append"]
  /\ UNCHANGED <<events, workflows, idemKeys, startVars, cancelVars, outsideEngine>>

\* Lines 207-210 / 218-221: append workflow_failed or workflow_completed.
DriverAppendFinal(w) ==
  /\ dpc[w] = "final_append"
  /\ events' = AppendEvent(events, w,
                 NewEvent(IF dst[w].Status = StatusFailed
                            THEN EventWorkflowFailed ELSE EventWorkflowCompleted, "-"))
  /\ dpc' = [dpc EXCEPT ![w] = "final_save"]
  /\ UNCHANGED <<dst, workflows, idemKeys, startVars, cancelVars, outsideEngine>>

\* Line 226: e.stateStore.SaveWorkflowState(ctx, workflowState)
DriverSaveFinal(w) ==
  /\ dpc[w] = "final_save"
  /\ workflows' = SaveWorkflowState(workflows, w, dst[w])
  /\ dpc' = [dpc EXCEPT ![w] = "done"]
  /\ dst' = [dst EXCEPT ![w] = NoState]
  /\ UNCHANGED <<events, idemKeys, startVars, cancelVars, outsideEngine>>

\* --------------------------------------------------- Engine.CancelWorkflow
CancelInit ==
  /\ cpc = [k \in CancelCalls |-> "idle"]
  /\ cwf = [k \in CancelCalls |-> NoWorkflow]
  /\ cst = [k \in CancelCalls |-> NoState]
  /\ cres = [k \in CancelCalls |-> "none"]

\* CancelWorkflow without the IsComplete test of line 146.
CancelCall_NoTerminalCheck(k) ==
  /\ cpc[k] = "idle"
  /\ \E w \in WorkflowIDs :
       /\ cwf' = [cwf EXCEPT ![k] = w]
       /\ IF ~WorkflowExists(workflows, w)
            THEN /\ cres' = [cres EXCEPT ![k] = "not_found"]
                 /\ cpc' = [cpc EXCEPT ![k] = "done"]
                 /\ UNCHANGED cst
            ELSE /\ cst' = [cst EXCEPT ![k] = [workflows[w] EXCEPT !.Status = StatusCanceled]]
                 /\ cpc' = [cpc EXCEPT ![k] = "save"]
                 /\ UNCHANGED cres
  /\ UNCHANGED <<events, workflows, idemKeys, startVars, driverVars, outsideEngine>>

\* Lines 139-153: CancelWorkflow(w), for a known or an unknown workflowID,
\* reads the state; not-found and already-terminal return an error; otherwise
\* the local copy becomes Canceled.
CancelCall(k) ==
  /\ cpc[k] = "idle"
  /\ \E w \in WorkflowIDs :
       /\ cwf' = [cwf EXCEPT ![k] = w]
       /\ IF ~WorkflowExists(workflows, w)
            THEN /\ cres' = [cres EXCEPT ![k] = "not_found"]
                 /\ cpc' = [cpc EXCEPT ![k] = "done"]
                 /\ UNCHANGED cst
            ELSE IF IsTerminal(workflows[w].Status)
              THEN /\ cres' = [cres EXCEPT ![k] = "already_completed"]
                   /\ cpc' = [cpc EXCEPT ![k] = "done"]
                   /\ UNCHANGED cst
              ELSE /\ cst' = [cst EXCEPT ![k] = [workflows[w] EXCEPT !.Status = StatusCanceled]]
                   /\ cpc' = [cpc EXCEPT ![k] = "save"]
                   /\ UNCHANGED cres
  /\ UNCHANGED <<events, workflows, idemKeys, startVars, driverVars, outsideEngine>>

\* Line 155: SaveWorkflowState(ctx, workflowState)
CancelSaveState(k) ==
  /\ cpc[k] = "save"
  /\ workflows' = SaveWorkflowState(workflows, cwf[k], cst[k])
  /\ cpc' = [cpc EXCEPT ![k] = "append"]
  /\ wctx' = [w \in Workers |->
               IF wpc[w] = "execute" /\ wctx[w] = "live" /\ tasks[wtask[w]].WorkflowID = cwf[k]
                 THEN "live_owed" ELSE wctx[w]]
  /\ UNCHANGED <<cwf, cst, cres, events, idemKeys, startVars, driverVars, mu, appenderVars,
                 queueVars, consumerVars, activities, epc, wpc, wtask, wact, wres, wperr,
                 timerVars, streamVars, futureVars, getterVars, lifeVars, recallVars>>

\* Lines 160-167: append workflow_canceled and return nil.
CancelAppendEvent(k) ==
  /\ cpc[k] = "append"
  /\ events' = AppendEvent(events, cwf[k], NewEvent(EventWorkflowCanceled, "-"))
  /\ cres' = [cres EXCEPT ![k] = "ok"]
  /\ cpc' = [cpc EXCEPT ![k] = "done"]
  /\ cst' = [cst EXCEPT ![k] = NoState]
  /\ UNCHANGED <<cwf, workflows, idemKeys, startVars, driverVars, outsideEngine>>

EngineInit == StartInit /\ DriverInit /\ CancelInit

\* ------------------------------------------------------------ InMemoryQueue
NoTaskRec == [ActivityID |-> "-", ActivityName |-> "-", WorkflowID |-> NoWorkflow, Attempts |-> -1]
NoPending == [inflight |-> FALSE, deadline |-> 0]

\* NewTask: a fresh *Task with Attempts 0.
NewTask(wf, name, aid) ==
  [ActivityID |-> aid, ActivityName |-> name, WorkflowID |-> wf, Attempts |-> 0]

\* The next task ID generateTaskID gives (NoTask when the model's IDs are used up).
NextTaskID ==
  IF \E t \in TaskIDs : tasks[t] = NoTaskRec
    THEN CHOOSE t \in TaskIDs : tasks[t] = NoTaskRec /\ \A u \in TaskIDs : u < t => tasks[u] # NoTaskRec
    ELSE NoTask

QueueInit ==
  /\ now = 0
  /\ tasks = [t \in TaskIDs |-> NoTaskRec]
  /\ ready = <<>>
  /\ pending = [t \in TaskIDs |-> NoPending]
  /\ dlq = <<>>
  /\ enableDLQ \in BOOLEAN
  /\ lease = [t \in TaskIDs |-> [open |-> FALSE, until |-> 0]]

\* Enqueue's channel send `queue <- task`: blocks while the buffer is full.
ChanSend(t) ==
  /\ Len(ready) < QueueCap
  /\ ready' = Append(ready, t)

\* DequeueWithTimeout lines 131-144: receive the head of the channel,
\* task.Attempts++, addPending(task, now + visibility timeout), return it.
DequeueTask(t) ==
  /\ Len(ready) > 0
  /\ t = Head(ready)
  /\ ready' = Tail(ready)
  /\ tasks' = [tasks EXCEPT ![t].Attempts = @ + 1]
  /\ pending' = [pending EXCEPT ![t] = [inflight |-> TRUE, deadline |-> now + VisibilityTimeout]]
  /\ lease' = [lease EXCEPT ![t] = [open |-> TRUE, until |-> now + VisibilityTimeout]]

\* removePending: the record of taskID, deleted from the map (nil when absent).
RemovePending(t) == [pending EXCEPT ![t] = NoPending]

\* Ack: removePending; a task that is not inflight gives a not-found error.
AckTask(t, res) ==
  /\ res = (IF pending[t].inflight THEN "ok" ELSE "not_found")
  /\ pending' = RemovePending(t)
  /\ lease' = [lease EXCEPT ![t].open = FALSE]
  /\ UNCHANGED <<tasks, ready, dlq>>

\* What a Nack call did.
NackResults == {"not_found", "requeued", "ctx_error", "dropped"}

\* Nack that does not look at what removePending returned.
NackTask_NoPendingCheck(t, requeue, ctxDone, res) ==
  /\ res = (IF requeue THEN "requeued" ELSE "dropped")
  /\ pending' = RemovePending(t)
  /\ lease' = [lease EXCEPT ![t].open = FALSE]
  /\ IF requeue
       THEN ChanSend(t) /\ UNCHANGED dlq
       ELSE /\ dlq' = (IF enableDLQ THEN Append(dlq, t) ELSE dlq)
            /\ UNCHANGED ready
  /\ UNCHANGED tasks

\* Nack: removePending; not inflight gives not-found; requeue calls Enqueue,
\* whose select sends the task to the channel or, when the caller's ctx is
\* done, may return ctx.Err() instead (the record is already removed);
\* without requeue the task goes to the DLQ when EnableDLQ is set.  res is
\* what the call did: "not_found", "requeued", "ctx_error" or "dropped".
NackTask(t, requeue, ctxDone, res) ==
  /\ pending' = RemovePending(t)
  /\ lease' = [lease EXCEPT ![t].open = FALSE]
  /\ IF ~pending[t].inflight
       THEN /\ res = "not_found"
            /\ UNCHANGED <<ready, dlq>>
       ELSE IF requeue
         THEN /\ UNCHANGED dlq
              /\ \/ res = "requeued" /\ ChanSend(t)
                 \/ ctxDone /\ res = "ctx_error" /\ UNCHANGED ready
         ELSE /\ res = "dropped"
              /\ dlq' = (IF enableDLQ THEN Append(dlq, t) ELSE dlq)
              /\ UNCHANGED ready
  /\ UNCHANGED tasks

\* scanOnce that redelivers an inflight task whatever its deadline.
ScanRedeliver_NoDeadlineCheck(t) ==
  /\ pending[t].inflight
  /\ ready' = Append(ready, t)
  /\ pending' = [pending EXCEPT ![t] = NoPending]
  /\ UNCHANGED <<now, tasks, dlq, enableDLQ, lease, consumerVars, outsideQueue>>

\* scanOnce that sends an expired task to the channel and keeps its record.
ScanRedeliver_KeepsPending(t) ==
  /\ pending[t].inflight
  /\ now > pending[t].deadline
  /\ Len(ready) < MaxTasks + 1
  /\ ready' = Append(ready, t)
  /\ UNCHANGED <<now, tasks, pending, dlq, enableDLQ, lease, consumerVars, outsideQueue>>

\* scanOnce, one iteration of its loop over the inflight records (the whole
\* scan runs under q.mu; its iterations touch one record each): a record past
\* its deadline goes back to the channel and leaves pending, or, when the
\* buffer is full, gets its deadline pushed forward.
ScanRedeliver(t) ==
  /\ pending[t].inflight
  /\ now > pending[t].deadline
  /\ IF Len(ready) < QueueCap
       THEN /\ ready' = Append(ready, t)
            /\ pending' = [pending EXCEPT ![t] = NoPending]
       ELSE /\ pending' = [pending EXCEPT ![t].deadline = now + 1]
            /\ UNCHANGED ready
  /\ UNCHANGED <<now, tasks, dlq, enableDLQ, lease, consumerVars, outsideQueue>>

\* Time passes.
Tick ==
  /\ now < MaxTime
  /\ now' = now + 1
  /\ UNCHANGED <<tasks, ready, pending, dlq, enableDLQ, lease, consumerVars, outsideQueue>>

\* ---------------------------------------------- callers of the queue
ConsumerInit ==
  /\ held = [c \in Consumers |-> NoTask]
  /\ qres = [c \in Consumers |-> "none"]

\* A producer creates a task and enqueues it.
ProducerEnqueue ==
  /\ NextTaskID # NoTask
  /\ tasks' = [tasks EXCEPT ![NextTaskID] = NewTask(1, "echo", "a1")]
  /\ ChanSend(NextTaskID)
  /\ UNCHANGED <<now, pending, dlq, enableDLQ, lease, consumerVars, outsideQueue>>

\* A consumer's Dequeue returns a task.
ConsumerDequeue(c) ==
  /\ \E t \in TaskIDs :
       /\ tasks[t].Attempts < MaxDeliveries
       /\ DequeueTask(t)
       /\ held' = [held EXCEPT ![c] = t]
  /\ qres' = [qres EXCEPT ![c] = "none"]
  /\ UNCHANGED <<now, dlq, enableDLQ, outsideQueue>>

\* A consumer acks the task it was given, however long ago.
ConsumerAck(c) ==
  /\ held[c] # NoTask
  /\ \E res \in {"ok", "not_found"} :
       /\ AckTask(held[c], res)
       /\ qres' = [qres EXCEPT ![c] = res]
  /\ held' = [held EXCEPT ![c] = NoTask]
  /\ UNCHANGED <<now, enableDLQ, outsideQueue>>

\* A consumer nacks the task it was given, with or without requeue, under a
\* live ctx; it keeps whether the call returned an error.
ConsumerNack(c) ==
  /\ held[c] # NoTask
  /\ \E requeue \in BOOLEAN, res \in NackResults :
       /\ NackTask(held[c], requeue, FALSE, res)
       /\ qres' = [qres EXCEPT ![c] = IF res = "not_found" THEN "not_found" ELSE "ok"]
  /\ held' = [held EXCEPT ![c] = NoTask]
  /\ UNCHANGED <<now, enableDLQ, outsideQueue>>

\* A consumer nacks the task it was given under a ctx that is live or
\* already done (a worker's ctx after its cancellation); it keeps what the
\* call did.
ConsumerNackCtx(c) ==
  /\ held[c] # NoTask
  /\ \E requeue \in BOOLEAN, ctxDone \in BOOLEAN, res \in NackResults :
       /\ NackTask(held[c], requeue, ctxDone, res)
       /\ qres' = [qres EXCEPT ![c] = res]
  /\ held' = [held EXCEPT ![c] = NoTask]
  /\ UNCHANGED <<now, enableDLQ, outsideQueue>>

\* -------------------------------------- ExecuteActivityWithID (context.go)
\* The program of workflow 1 calls it for activity "a1"; the call builds task 1.
ExecCalls == {1}

\* futureImpl: not created yet; newFuture; after setValue; after setError.
NoFuture == [state |-> "none", value |-> "-"]
NewFuture == [state |-> "pending", value |-> "-"]
SetValue(f, value) == [state |-> "resolved", value |-> value]
SetError(f, err) == [state |-> "failed", value |-> err]

ExecInit ==
  /\ epc = [t \in TaskIDs |-> "idle"]
  /\ fut = NoFuture
  /\ rpc = "idle"

\* ExecuteActivityWithID without the cached-result branch.
GetCachedOrBuildTask_IgnoresCache(t) ==
  /\ epc' = [epc EXCEPT ![t] = "recheck"]
  /\ tasks' = [tasks EXCEPT ![t] = NewTask(1, "echo", "a1")]
  /\ UNCHANGED <<events, activities, ready, pending, dlq, lease, wpc, wtask, wact, wres,
                 outsideWorker>>

\* Lines 53-62: a Completed state gives a resolved future and no task;
\* otherwise the task is built.
GetCachedOrBuildTask(t) ==
  /\ IF activities["a1"].Status = StatusCompleted
       THEN /\ epc' = [epc EXCEPT ![t] = "cached"]
            /\ fut' = SetValue(NewFuture, activities["a1"].Output)
            /\ UNCHANGED tasks
       ELSE /\ epc' = [epc EXCEPT ![t] = "recheck"]
            /\ tasks' = [tasks EXCEPT ![t] = NewTask(1, "echo", "a1")]
            /\ UNCHANGED fut
  /\ UNCHANGED <<events, activities, ready, pending, dlq, lease, wpc, wtask, wact, wres,
                 wperr, wctx, outsideExec>>

\* ExecuteActivityWithID that never records activity_scheduled.
ExecRecheck_NeverAppends(t) ==
  /\ epc[t] = "recheck"
  /\ epc' = [epc EXCEPT ![t] = "enqueue"]
  /\ UNCHANGED <<events, activities, tasks, ready, pending, dlq, lease, wpc, wtask, wact, wres,
                 outsideWorker>>

\* The program's call of ExecuteActivityWithID, up to line 62.
ExecCheckCompleted(t) ==
  /\ epc[t] = "idle"
  /\ GetCachedOrBuildTask(t)

\* Line 67: the second GetActivityState decides whether activity_scheduled
\* is appended.
ExecRecheck(t) ==
  /\ epc[t] = "recheck"
  /\ epc' = [epc EXCEPT ![t] = IF ActivityExists(activities, "a1") THEN "enqueue" ELSE "append"]
  /\ UNCHANGED <<events, activities, tasks, ready, pending, dlq, lease, wpc, wtask, wact, wres,
                 outsideWorker>>

\* Line 73: append activity_scheduled.
ExecAppendScheduled(t) ==
  /\ epc[t] = "append"
  /\ events' = AppendEvent(events, 1, NewEvent(EventActivityScheduled, "a1"))
  /\ epc' = [epc EXCEPT ![t] = "enqueue"]
  /\ UNCHANGED <<activities, tasks, ready, pending, dlq, lease, wpc, wtask, wact, wres,
                 outsideWorker>>

\* Lines 77-95: enqueue the task, create the future and start
\* pollActivityResult for it.
ExecEnqueue(t) ==
  /\ epc[t] = "enqueue"
  /\ ChanSend(t)
  /\ epc' = [epc EXCEPT ![t] = "enqueued"]
  /\ fut' = NewFuture
  /\ UNCHANGED <<events, activities, tasks, pending, dlq, lease, wpc, wtask, wact, wres,
                 wperr, wctx, outsideExec>>

\* The program calls ExecuteActivityWithID with the same ID again while the
\* Completed state is stored.  (A repeated call that finds another state
\* builds a second task, which the single task of this model does not cover.)
ExecCallAgain(t) ==
  /\ epc[t] \in {"enqueued", "cached"}
  /\ activities["a1"].Status = StatusCompleted
  /\ GetCachedOrBuildTask(t)

\* The program calls ExecuteActivityWithID with the ID "a1" a second time,
\* after the first call has returned its future.  Lines 53-62: a Completed
\* state gives the cached result; otherwise the task is built.
RecallCheckCompleted ==
  /\ rpc = "idle"
  /\ \E t \in ExecCalls : epc[t] = "enqueued"
  /\ rpc' = IF activities["a1"].Status = StatusCompleted THEN "cached" ELSE "recheck"
  /\ UNCHANGED <<events, fut, activities, tasks, ready, pending, dlq, lease, epc, wpc, wtask,
                 wact, wres, wperr, wctx, outsideExec_NoLife, lifeVars>>

\* The second call, line 67: GetActivityState decides whether
\* activity_scheduled is appended.
RecallRecheck ==
  /\ rpc = "recheck"
  /\ rpc' = IF ActivityExists(activities, "a1") THEN "enqueue" ELSE "append"
  /\ UNCHANGED <<events, fut, activities, tasks, ready, pending, dlq, lease, epc, wpc, wtask,
                 wact, wres, wperr, wctx, outsideExec_NoLife, lifeVars>>

\* The second call, line 73: append activity_scheduled.  (Its Enqueue, line
\* 77, needs a second task, which the single task of this model does not cover.)
RecallAppendScheduled ==
  /\ rpc = "append"
  /\ events' = AppendEvent(events, 1, NewEvent(EventActivityScheduled, "a1"))
  /\ rpc' = "enqueue"
  /\ UNCHANGED <<fut, activities, tasks, ready, pending, dlq, lease, epc, wpc, wtask,
                 wact, wres, wperr, wctx, outsideExec_NoLife, lifeVars>>

\* pollActivityResult, one tick: a stored Completed state resolves the
\* future with its Output, a stored Failed state fails it; then the poller
\* returns.
PollActivityResult ==
  /\ fut.state = "pending"
  /\ ActivityExists(activities, "a1")
  /\ activities["a1"].Status \in {StatusCompleted, StatusFailed}
  /\ fut' = IF activities["a1"].Status = StatusCompleted
              THEN SetValue(fut, activities["a1"].Output)
              ELSE SetError(fut, "activity failed")
  /\ UNCHANGED <<events, activities, tasks, ready, pending, dlq, lease, epc, wpc, wtask, wact,
                 wres, wperr, wctx, outsideExec>>

\* The program of workflow 1 (one Activity step built by Builder): its
\* future.Get returns and the program returns the activity's output or the
\* error; executeWorkflow sets the final Status and Output of its local copy.
ProgramGetReturns ==
  /\ dpc[1] = "execute"
  /\ fut.state \in {"resolved", "failed"}
  /\ dst' = [dst EXCEPT ![1] =
               IF fut.state = "resolved" THEN WorkflowState(StatusCompleted, fut.value)
                                         ELSE WorkflowState(StatusFailed, "-")]
  /\ dpc' = [dpc EXCEPT ![1] = "final_append"]
  /\ UNCHANGED <<events, workflows, idemKeys, startVars, cancelVars, outsideEngine>>

\* The program's ExecuteActivity call runs once executeWorkflow has reached
\* def.Workflow.Execute.
ProgramExecuteActivity(t) ==
  /\ dpc[1] = "execute"
  /\ \/ ExecCheckCompleted(t)
     \/ ExecRecheck(t)
     \/ ExecAppendScheduled(t)
     \/ ExecEnqueue(t)

\* ------------------------------------------------- futureImpl: Get, IsReady
\* Goroutines that call Get on the future of a1's call, each with a ctx of its own.
Getters == {"g1", "g2"}
CtxErr == "context canceled"
NoReturn == [kind |-> "none", value |-> "-"]
outsideGetters == <<mu, events, workflows, idemKeys, appenderVars, engineVars, queueVars,
                    consumerVars, workerVars, timerVars, streamVars, lifeVars, recallVars>>

GetterInit ==
  /\ gpc = [g \in Getters |-> "idle"]
  /\ gctx = [g \in Getters |-> "live"]
  /\ gret = [g \in Getters |-> NoReturn]

IsReady(f) == f.state \in {"resolved", "failed"}

\* What Get returns after readyCh: f.err when it is set, else nil with the value.
GetResult(f) ==
  IF f.state = "failed" THEN [kind |-> "error", value |-> f.value]
                        ELSE [kind |-> "value", value |-> f.value]

\* pollActivityResult's activityCtx.Done() case with setError on a future that
\* is already set (the goroutine does not return after setValue/setError).
PollCtxDone_AfterSet ==
  /\ fut.state # "none"
  /\ fut' = SetError(fut, CtxErr)
  /\ UNCHANGED <<events, activities, tasks, ready, pending, dlq, lease, epc, wpc, wtask, wact,
                 wres, wperr, wctx, outsideExec>>

\* pollActivityResult, lines 106-108: the workflow's context is done while the
\* goroutine still polls; it fails the future with ctx.Err() and returns.
PollCtxDone ==
  /\ fut.state = "pending"
  /\ fut' = SetError(fut, CtxErr)
  /\ UNCHANGED <<events, activities, tasks, ready, pending, dlq, lease, epc, wpc, wtask, wact,
                 wres, wperr, wctx, outsideExec>>

\* A goroutine calls Get with a live ctx and reaches the select.
GetCall(g) ==
  /\ fut.state # "none"
  /\ gpc[g] = "idle"
  /\ gpc' = [gpc EXCEPT ![g] = "select"]
  /\ gctx' = [gctx EXCEPT ![g] = "live"]
  /\ UNCHANGED <<gret, fut, events, outsideGetters>>

\* The ctx of a Get in progress is canceled.
GetCtxDone(g) ==
  /\ gpc[g] = "select"
  /\ gctx[g] = "live"
  /\ gctx' = [gctx EXCEPT ![g] = "done"]
  /\ UNCHANGED <<gpc, gret, fut, events, outsideGetters>>

\* Get's select: readyCh closed gives the future's outcome, ctx.Done() gives
\* ctx.Err(); with both ready the select takes either case.
GetReturns(g) ==
  /\ gpc[g] = "select"
  /\ \/ /\ IsReady(fut)
        /\ gret' = [gret EXCEPT ![g] = GetResult(fut)]
     \/ /\ gctx[g] = "done"
        /\ gret' = [gret EXCEPT ![g] = [kind |-> "ctx", value |-> CtxErr]]
  /\ gpc' = [gpc EXCEPT ![g] = "idle"]
  /\ UNCHANGED <<gctx, fut, events, outsideGetters>>


\* ------------------------------------------------- Worker (poll loops)
TaskResult(success, output, error) == [Success |-> success, Output |-> output, Error |-> error]
NoResult == TaskResult(FALSE, "-", "-")

WorkerInit ==
  /\ wpc = [w \in Workers |-> "idle"]
  /\ wtask = [w \in Workers |-> NoTask]
  /\ wact = [w \in Workers |-> NoActivity]
  /\ wres = [w \in Workers |-> NoResult]
  /\ wperr = [w \in Workers |-> 0]
  /\ wctx = [w \in Workers |-> "live"]

\* pollOnce line 164: DequeueWithTimeout returns a task; the model follows a
\* task for its first `cap` deliveries.
WorkerDequeueUpTo(w, cap) ==
  /\ wpc[w] = "idle"
  /\ \E t \in TaskIDs :
       /\ tasks[t].Attempts < cap
       /\ DequeueTask(t)
       /\ wtask' = [wtask EXCEPT ![w] = t]
  /\ wpc' = [wpc EXCEPT ![w] = "lookup"]
  /\ UNCHANGED <<events, activities, dlq, epc, wact, wres, outsideWorker>>

WorkerDequeue(w) == WorkerDequeueUpTo(w, MaxDeliveries)

\* Without the scanner a task is delivered until a Nack drops it.
WorkerDequeueRetry(w) == WorkerDequeueUpTo(w, WorkerMaxAttempts)

\* executeActivity lines 235-263: the registry lookup, then GetActivityState.
\* A missing activity gives a failed result; a Completed state gives the
\* cached output; another existing state is executed again without a new
\* activity_started; with no state a Running one is built.
WorkerLookup(w) ==
  /\ wpc[w] = "lookup"
  /\ LET t == wtask[w]
         a == tasks[t].ActivityID
         st == activities[a]
     IN IF tasks[t].ActivityName \notin Registry(w)
          THEN /\ wres' = [wres EXCEPT ![w] = TaskResult(FALSE, "-", "activity not found")]
               /\ wpc' = [wpc EXCEPT ![w] = "nack"]
               /\ UNCHANGED wact
          ELSE IF ActivityExists(activities, a) /\ st.Status = StatusCompleted
            THEN /\ wres' = [wres EXCEPT ![w] = TaskResult(TRUE, st.Output, "-")]
                 /\ wpc' = [wpc EXCEPT ![w] = "ack"]
                 /\ UNCHANGED wact
            ELSE IF ActivityExists(activities, a)
              THEN /\ wact' = [wact EXCEPT ![w] = st]
                   /\ wpc' = [wpc EXCEPT ![w] = "execute"]
                   /\ UNCHANGED wres
              ELSE /\ wact' = [wact EXCEPT ![w] =
                                ActivityState(StatusRunning, "-", tasks[t].Attempts)]
                   /\ wpc' = [wpc EXCEPT ![w] = "save_running"]
                   /\ UNCHANGED wres
  /\ UNCHANGED <<events, activities, tasks, ready, pending, dlq, lease, epc, wtask,
                 outsideWorker>>

\* Line 265: save the new Running state.
WorkerSaveRunning(w) ==
  /\ wpc[w] = "save_running"
  /\ activities' = SaveActivityState(activities, tasks[wtask[w]].ActivityID, wact[w])
  /\ wpc' = [wpc EXCEPT ![w] = "append_started"]
  /\ UNCHANGED <<events, tasks, ready, pending, dlq, lease, epc, wtask, wact, wres,
                 outsideWorker>>

\* Line 272: append activity_started.
WorkerAppendStarted(w) ==
  /\ wpc[w] = "append_started"
  /\ events' = AppendEvent(events, tasks[wtask[w]].WorkflowID,
                           NewEvent(EventActivityStarted, tasks[wtask[w]].ActivityID))
  /\ wpc' = [wpc EXCEPT ![w] = "execute"]
  /\ UNCHANGED <<activities, tasks, ready, pending, dlq, lease, epc, wtask, wact, wres,
                 outsideWorker>>

\* Lines 315-348: Execute returns an error or an output, and the event of
\* the outcome is appended: activity_failed, or activity_completed unless the
\* local state is already Completed.
WorkerExecuteReturns(w) ==
  /\ wpc[w] = "execute"
  /\ LET t == wtask[w]
         wf == tasks[t].WorkflowID
         a == tasks[t].ActivityID
     IN \/ /\ \E err \in Errors : wres' = [wres EXCEPT ![w] = TaskResult(FALSE, "-", err)]
           /\ wact' = [wact EXCEPT ![w].Status = StatusFailed]
           /\ events' = AppendEvent(events, wf, NewEvent(EventActivityFailed, a))
        \/ \E output \in Outputs :
             /\ wres' = [wres EXCEPT ![w] = TaskResult(TRUE, output, "-")]
             /\ IF wact[w].Status # StatusCompleted
                  THEN /\ wact' = [wact EXCEPT ![w].Status = StatusCompleted,
                                               ![w].Output = output]
                       /\ events' = AppendEvent(events, wf, NewEvent(EventActivityCompleted, a))
                  ELSE UNCHANGED <<wact, events>>
  /\ wpc' = [wpc EXCEPT ![w] = "save_final"]
  /\ wctx' = [wctx EXCEPT ![w] = "live"]
  /\ UNCHANGED <<activities, tasks, ready, pending, dlq, lease, epc, wtask, wperr, outsideExec,
                 futureVars, getterVars, lifeVars, recallVars>>

\* Lines 334-348 alone: Execute returns an output (an activity that does not fail).
WorkerExecuteSucceeds(w) ==
  /\ wpc[w] = "execute"
  /\ LET t == wtask[w]
         wf == tasks[t].WorkflowID
         a == tasks[t].ActivityID
     IN \E output \in Outputs :
          /\ wres' = [wres EXCEPT ![w] = TaskResult(TRUE, output, "-")]
          /\ IF wact[w].Status # StatusCompleted
               THEN /\ wact' = [wact EXCEPT ![w].Status = StatusCompleted,
                                            ![w].Output = output]
                    /\ events' = AppendEvent(events, wf, NewEvent(EventActivityCompleted, a))
               ELSE UNCHANGED <<wact, events>>
  /\ wpc' = [wpc EXCEPT ![w] = "save_final"]
  /\ wctx' = [wctx EXCEPT ![w] = "live"]
  /\ UNCHANGED <<activities, tasks, ready, pending, dlq, lease, epc, wtask, wperr, outsideExec,
                 futureVars>>

\* Lines 295-313, the workflow-cancel watcher of the execution in progress:
\* a tick that reads Status Canceled cancels wfCtx (any other tick changes
\* nothing).  The deferred cancel of line 297 ends the ctx with the execution;
\* the next execution of the loop starts with a new one.
WatcherCancels(w) ==
  /\ wpc[w] = "execute"
  /\ wctx[w] \in {"live", "live_owed"}
  /\ workflows[tasks[wtask[w]].WorkflowID].Status = StatusCanceled
  /\ wctx' = [wctx EXCEPT ![w] = "canceled"]
  /\ UNCHANGED <<events, activities, tasks, ready, pending, dlq, lease, epc, wpc, wtask, wact,
                 wres, wperr, outsideExec, futureVars, getterVars, lifeVars, recallVars>>

\* Lines 317-332 with a store that is down: Execute returns an error and the
\* AppendEvent of activity_failed returns an error, which is not looked at.
WorkerExecuteFailsStoreDown(w) ==
  /\ wpc[w] = "execute"
  /\ \E err \in Errors : wres' = [wres EXCEPT ![w] = TaskResult(FALSE, "-", err)]
  /\ wact' = [wact EXCEPT ![w].Status = StatusFailed]
  /\ wperr' = [wperr EXCEPT ![w] = tasks[wtask[w]].Attempts]
  /\ wpc' = [wpc EXCEPT ![w] = "save_final"]
  /\ wctx' = [wctx EXCEPT ![w] = "live"]
  /\ UNCHANGED <<events, activities, tasks, ready, pending, dlq, lease, epc, wtask, outsideExec,
                 futureVars, getterVars, lifeVars, recallVars>>

\* Line 354 with a store that is down: SaveActivityState of the Failed state
\* returns an error, which is not looked at.
WorkerSaveFinalFails(w) ==
  /\ wpc[w] = "save_final"
  /\ ~wres[w].Success
  /\ wperr' = [wperr EXCEPT ![w] = tasks[wtask[w]].Attempts]
  /\ wpc' = [wpc EXCEPT ![w] = "nack"]
  /\ wact' = [wact EXCEPT ![w] = NoActivity]
  /\ UNCHANGED <<events, activities, tasks, ready, pending, dlq, lease, epc, wtask, wres, wctx,
                 outsideExec, futureVars, getterVars, lifeVars, recallVars>>

\* Line 354: save the final activity state, whatever the store holds.
WorkerSaveFinal(w) ==
  /\ wpc[w] = "save_final"
  /\ activities' = SaveActivityState(activities, tasks[wtask[w]].ActivityID, wact[w])
  /\ wpc' = [wpc EXCEPT ![w] = IF wres[w].Success THEN "ack" ELSE "nack"]
  /\ wact' = [wact EXCEPT ![w] = NoActivity]
  /\ UNCHANGED <<events, tasks, ready, pending, dlq, lease, epc, wtask, wres, outsideWorker>>

\* pollOnce lines 178-182: Ack after a successful result (its error is only logged).
WorkerAck(w) ==
  /\ wpc[w] = "ack"
  /\ \E res \in {"ok", "not_found"} : AckTask(wtask[w], res)
  /\ wpc' = [wpc EXCEPT ![w] = "idle"]
  /\ wtask' = [wtask EXCEPT ![w] = NoTask]
  /\ wres' = [wres EXCEPT ![w] = NoResult]
  /\ UNCHANGED <<events, activities, epc, wact, outsideWorker>>

\* pollOnce lines 184-192: Nack after a failed result, requeue while
\* task.Attempts < 3.  The worker's ctx is live as long as it runs.
WorkerNack(w) ==
  /\ wpc[w] = "nack"
  /\ \E res \in NackResults :
       NackTask(wtask[w], tasks[wtask[w]].Attempts < WorkerMaxAttempts, FALSE, res)
  /\ wpc' = [wpc EXCEPT ![w] = "idle"]
  /\ wtask' = [wtask EXCEPT ![w] = NoTask]
  /\ wres' = [wres EXCEPT ![w] = NoResult]
  /\ UNCHANGED <<events, activities, epc, wact, outsideWorker>>

\* ------------------------------------------- Worker.Start, Stop, pollLoop
\* The poll loops of the worker that Start and Stop are called on
\* (MaxConcurrent = 2); the loop "w3" belongs to another worker.
LifeLoops == {"w1", "w2"}

\* setupEngineAndWorker and w.Start: the worker is started and its loops poll.
LifeInit ==
  /\ running = TRUE
  /\ stopCh = "open"
  /\ wloop = [w \in Workers |-> "poll"]
  /\ lpc = "idle"
  /\ lret = "none"
  /\ lbacklog = 0

\* What the worker's lifecycle steps leave alone.
outsideLife == <<mu, events, workflows, idemKeys, appenderVars, engineVars, queueVars,
                 consumerVars, workerVars, timerVars, streamVars, futureVars, gpc, gctx, gret, recallVars>>

\* Worker.Start, lines 88-108: an error when running; otherwise running = true
\* and MaxConcurrent poll loops are launched.  stopCh is the channel New made.
WorkerStart ==
  /\ lpc = "idle" /\ lret # "panic"
  /\ IF running
       THEN /\ lret' = "already_running"
            /\ UNCHANGED <<running, wloop, lbacklog>>
       ELSE /\ running' = TRUE
            /\ wloop' = [w \in Workers |-> IF w \in LifeLoops THEN "select" ELSE wloop[w]]
            /\ lret' = "started"
            /\ lbacklog' = Len(ready)
  /\ UNCHANGED <<stopCh, lpc, outsideLife>>

\* Worker.Stop, lines 110-123: nil when not running; otherwise running = false
\* and close(w.stopCh), which panics when the channel is closed already; then
\* the call waits for the loops.
WorkerStopCall ==
  /\ lpc = "idle" /\ lret # "panic"
  /\ IF ~running
       THEN /\ lret' = "noop"
            /\ UNCHANGED <<running, stopCh, lpc>>
       ELSE /\ running' = FALSE
            /\ IF stopCh = "closed"
                 THEN /\ lret' = "panic"
                      /\ UNCHANGED <<stopCh, lpc>>
                 ELSE /\ stopCh' = "closed"
                      /\ lpc' = "stop_wait"
                      /\ UNCHANGED lret
  /\ UNCHANGED <<wloop, lbacklog, outsideLife>>

\* Worker.Stop, lines 125-138: wg.Wait() is over when every loop has returned
\* (the ctx of Stop has no deadline).
WorkerStopReturns ==
  /\ lpc = "stop_wait"
  /\ \A w \in LifeLoops : wloop[w] = "off"
  /\ lpc' = "idle"
  /\ lret' = "stopped"
  /\ UNCHANGED <<running, stopCh, wloop, lbacklog, outsideLife>>

\* worker.New on the same queue and store, in place of a worker that has been
\* stopped: running = false and a new stopCh.
WorkerNew ==
  /\ lpc = "idle" /\ lret # "panic"
  /\ ~running
  /\ \A w \in LifeLoops : wloop[w] = "off"
  /\ stopCh = "closed"
  /\ stopCh' = "open"
  /\ lret' = "none"
  /\ UNCHANGED <<running, wloop, lpc, lbacklog, outsideLife>>

\* pollLoop whose select takes the stop case whatever stopCh holds.
LoopSelect_AlwaysExits(w) ==
  /\ wloop[w] = "select" /\ wpc[w] = "idle"
  /\ wloop' = [wloop EXCEPT ![w] = "off"]
  /\ UNCHANGED <<running, stopCh, lpc, lret, lbacklog, outsideLife>>

\* pollLoop's select, lines 147-157: stopCh closed ends the loop; otherwise
\* the default case calls pollOnce.
LoopSelect(w) ==
  /\ wloop[w] = "select" /\ wpc[w] = "idle"
  /\ wloop' = [wloop EXCEPT ![w] = IF stopCh = "closed" THEN "off" ELSE "poll"]
  /\ UNCHANGED <<running, stopCh, lpc, lret, lbacklog, outsideLife>>

\* pollOnce lines 164-168: DequeueWithTimeout times out and pollOnce returns.
LoopPollTimeout(w) ==
  /\ wloop[w] = "poll" /\ wpc[w] = "idle"
  /\ ready = <<>>
  /\ wloop' = [wloop EXCEPT ![w] = "select"]
  /\ UNCHANGED <<running, stopCh, lpc, lret, lbacklog, outsideLife>>

\* pollOnce line 164 in a loop that is in pollOnce: DequeueWithTimeout returns
\* a task; the loop is back at its select when this pollOnce is over.
LoopDequeue(w) ==
  /\ wloop[w] = "poll" /\ wpc[w] = "idle"
  /\ \E t \in TaskIDs :
       /\ tasks[t].Attempts < MaxDeliveries
       /\ DequeueTask(t)
       /\ wtask' = [wtask EXCEPT ![w] = t]
  /\ wpc' = [wpc EXCEPT ![w] = "lookup"]
  /\ wloop' = [wloop EXCEPT ![w] = "select"]
  /\ UNCHANGED <<events, activities, dlq, epc, wact, wres, wperr, wctx, outsideExec_NoLife,
                 futureVars, running, stopCh, lpc, lret, lbacklog, recallVars>>

\* ------------------------------------------- Sleep and the timer scanner
NoSchedule == [tm |-> NoTimerID, fireAt |-> 0, found |-> NoTimer, flip |-> FALSE]

TimerInit ==
  /\ storeKind = "undetermined"
  /\ estate = [e \in Engines |-> IF e = "e1" THEN "running" ELSE "none"]
  /\ scpc = [e \in Engines |-> IF e = "e1" THEN "wait" ELSE "off"]
  /\ scdue = [e \in Engines |-> {}]
  /\ sccur = [e \in Engines |-> NoTimerID]
  /\ slpc = "idle"
  /\ markCalls = [tm \in TimerIDs |-> 0]
  /\ marked = [tm \in TimerIDs |-> 0]
  /\ schedLast = NoSchedule

\* A ScheduleTimer call on the store by any of its clients (another Sleep whose
\* "tm-<UnixNano>" ID is the same, a second engine, a test) with any fireAt.
ScheduleTimerCall ==
  /\ \E tm \in TimerIDs, fireAt \in 0..MaxTime :
       /\ timers' = ScheduleTimer(timers, tm, fireAt)
       /\ schedLast' = [tm |-> tm, fireAt |-> fireAt, found |-> timers[tm],
                        flip |-> ~schedLast.flip]
  /\ UNCHANGED <<events, storeKind, estate, scpc, scdue, sccur, slpc, markCalls, marked,
                 mu, workflows, idemKeys, appenderVars, engineVars, queueVars, consumerVars,
                 workerVars, streamVars, futureVars, getterVars, lifeVars, recallVars>>

\* Sleep lines 131-135: ScheduleTimer(timerID, now + duration).
SleepScheduleTimer ==
  /\ slpc = "idle"
  /\ \E duration \in 0..(MaxTime - now) :
       timers' = ScheduleTimer(timers, "tm1", now + duration)
  /\ slpc' = "append"
  /\ UNCHANGED <<events, storeKind, estate, scpc, scdue, sccur, markCalls, marked, outsideTimers>>

\* Sleep line 143: append timer_scheduled.
SleepAppendScheduled ==
  /\ slpc = "append"
  /\ events' = AppendEvent(events, 1, NewEvent(EventTimerScheduled, "tm1"))
  /\ slpc' = "poll"
  /\ UNCHANGED <<storeKind, timers, estate, scpc, scdue, sccur, markCalls, marked, outsideTimers>>

\* Sleep lines 156-170: the polling goroutine finds timer_fired for its
\* timer in GetEventsSince(0) and resolves the future.
SleepPollFindsFired ==
  /\ slpc = "poll"
  /\ \E i \in 1..Len(GetEventsSince(events, 1, 0)) :
       /\ GetEventsSince(events, 1, 0)[i].Type = EventTimerFired
       /\ GetEventsSince(events, 1, 0)[i].Ref = "tm1"
  /\ slpc' = "resolved"
  /\ UNCHANGED <<events, storeKind, timers, estate, scpc, scdue, sccur, markCalls, marked,
                 outsideTimers>>

\* engine.New: the engine exists and its scanner goroutine runs.
EngineNew(e) ==
  /\ estate[e] = "none"
  /\ estate' = [estate EXCEPT ![e] = "running"]
  /\ scpc' = [scpc EXCEPT ![e] = "wait"]
  /\ UNCHANGED <<events, storeKind, timers, scdue, sccur, slpc, markCalls, marked, outsideTimers>>

\* Engine.Stop: timerCancel().
EngineStop(e) ==
  /\ e \in Stoppable
  /\ estate[e] = "running"
  /\ estate' = [estate EXCEPT ![e] = "stopped"]
  /\ storeKind' \in {"inmemory", "redis"}
  /\ UNCHANGED <<events, timers, scpc, scdue, sccur, slpc, markCalls, marked, outsideTimers>>

\* The next position of a scanner that has `due` left to handle.
ScanNext(due) == IF due = {} THEN "wait" ELSE "mark"

\* A store call made under e.timerCtx fails: InMemoryStore ignores its ctx
\* argument; redisstore passes it to the Redis client, which returns the
\* context's error once the context is canceled.
CtxCallFails(e) == estate[e] = "stopped" /\ storeKind = "redis"

\* scanTimersLoop, `case now := <-ticker.C`: ListDueTimers.  (A scan that
\* finds nothing due, or whose call fails, is back at the select.)
ScanListDue(e) ==
  /\ scpc[e] = "wait"
  /\ ~CtxCallFails(e)
  /\ ListDueTimers(timers, now) # {}
  /\ scdue' = [scdue EXCEPT ![e] = ListDueTimers(timers, now)]
  /\ scpc' = [scpc EXCEPT ![e] = "mark"]
  /\ UNCHANGED <<events, storeKind, timers, estate, sccur, slpc, markCalls, marked, outsideTimers>>

\* scanTimersLoop, `case <-e.timerCtx.Done()`: the goroutine returns.
ScanExit(e) ==
  /\ scpc[e] = "wait"
  /\ estate[e] = "stopped"
  /\ scpc' = [scpc EXCEPT ![e] = "exited"]
  /\ UNCHANGED <<events, storeKind, timers, estate, scdue, sccur, slpc, markCalls, marked,
                 outsideTimers>>

\* scanTimersLoop lines 254-257: MarkTimerFired for one due record; an error
\* or transitioned=false moves on to the next record.
ScanMarkFired(e) ==
  /\ scpc[e] = "mark"
  /\ \E tm \in scdue[e] :
       LET r == MarkTimerFired(timers, tm)
           rest == scdue[e] \ {tm}
       IN /\ scdue' = [scdue EXCEPT ![e] = rest]
          /\ markCalls' = [markCalls EXCEPT ![tm] = IF CtxCallFails(e) THEN @ ELSE @ + 1]
          /\ IF ~CtxCallFails(e) /\ r.transitioned
               THEN /\ timers' = r.timers
                    /\ marked' = [marked EXCEPT ![tm] = @ + 1]
                    /\ sccur' = [sccur EXCEPT ![e] = tm]
                    /\ scpc' = [scpc EXCEPT ![e] = "append"]
               ELSE /\ timers' = timers
                    /\ scpc' = [scpc EXCEPT ![e] = ScanNext(rest)]
                    /\ UNCHANGED <<marked, sccur>>
  /\ UNCHANGED <<events, storeKind, estate, slpc, outsideTimers>>

\* scanTimersLoop lines 259-263: `_ = AppendEvent(e.timerCtx, timer_fired)`;
\* the call's error is discarded.
ScanAppendFired(e) ==
  /\ scpc[e] = "append"
  /\ events' = (IF CtxCallFails(e)
                  THEN events
                  ELSE AppendEvent(events, 1, NewEvent(EventTimerFired, sccur[e])))
  /\ sccur' = [sccur EXCEPT ![e] = NoTimerID]
  /\ scpc' = [scpc EXCEPT ![e] = ScanNext(scdue[e])]
  /\ UNCHANGED <<storeKind, timers, estate, scdue, slpc, markCalls, marked, outsideTimers>>

(***************************************************************************)
(* StreamEvents (server/agenthttp/sse.go): the SSE stream of one workflow's *)
(* events.  The stream reads the log of workflow 1 through getSince; other  *)
(* callers append to that log while the stream is open.                     *)
(***************************************************************************)
StreamWorkflow == 1

\* The types of the events appended while the stream is open.
StreamedTypes ==
  {EventActivityCompleted, EventWorkflowCompleted, EventWorkflowFailed, EventWorkflowCanceled}

\* The frames written to the ResponseWriter.
EventFrame(ev) == [kind |-> "event", id |-> ev.SequenceNum, type |-> ev.Type]
DoneFrame == [kind |-> "done", id |-> 0, type |-> "done"]
PingFrame == [kind |-> "ping", id |-> 0, type |-> "ping"]

\* A stream that ends on workflow_completed only.
EndsStream_OnlyCompleted(type) == type = EventWorkflowCompleted

\* The three types that end the stream.
EndsStream(type) ==
  type \in {EventWorkflowCompleted, EventWorkflowFailed, EventWorkflowCanceled}

\* The body of `for _, ev := range evs`, from position i on: st carries the
\* local `since`, the frames written, and whether the function returned.
RECURSIVE WriteEvents(_, _, _)
WriteEvents(evs, i, st) ==
  IF i > Len(evs) THEN st
  ELSE LET ev == evs[i]
           since == IF ev.SequenceNum > st.since THEN ev.SequenceNum ELSE st.since
           out == Append(st.out, EventFrame(ev))
       IN IF EndsStream(ev.Type)
            THEN [since |-> since, out |-> Append(out, DoneFrame), returned |-> TRUE]
            ELSE WriteEvents(evs, i + 1, [since |-> since, out |-> out, returned |-> FALSE])

StreamInit ==
  /\ stpc = "idle"
  /\ stsince = 0
  /\ stout = <<>>
  /\ stfrom = 0

\* Another component appends an event to the streamed workflow's log.
LogAppend ==
  /\ Len(events[StreamWorkflow]) < MaxLog
  /\ \E type \in StreamedTypes :
       events' = AppendEvent(events, StreamWorkflow, NewEvent(type, "-"))
  /\ UNCHANGED <<mu, workflows, idemKeys, appenderVars, engineVars, queueVars, consumerVars,
                 workerVars, timerVars, streamVars, futureVars, getterVars, lifeVars, recallVars>>

\* StreamEvents is called: Last-Event-ID is parsed into `since` (an empty or
\* unparsable header leaves it 0) and the loop is entered.
StreamStart ==
  /\ stpc = "idle"
  /\ \E since \in 0..MaxLog :
       /\ stsince' = since
       /\ stfrom' = since
  /\ stpc' = "loop"
  /\ UNCHANGED <<stout, mu, events, workflows, idemKeys, appenderVars, engineVars, queueVars,
                 consumerVars, workerVars, timerVars, futureVars, getterVars, lifeVars, recallVars>>

\* case <-tick.C: one getSince call and the loop over its result.
StreamPoll ==
  /\ stpc = "loop"
  /\ LET evs == GetEventsSince(events, StreamWorkflow, stsince)
         st == WriteEvents(evs, 1, [since |-> stsince, out |-> stout, returned |-> FALSE])
     IN /\ evs # <<>>
        /\ stsince' = st.since
        /\ stout' = st.out
        /\ stpc' = IF st.returned THEN "returned" ELSE "loop"
  /\ UNCHANGED <<stfrom, mu, events, workflows, idemKeys, appenderVars, engineVars, queueVars,
                 consumerVars, workerVars, timerVars, futureVars, getterVars, lifeVars, recallVars>>

\* case <-hb.C: a heartbeat comment.  Consecutive heartbeats are kept as one.
StreamHeartbeat ==
  /\ stpc = "loop"
  /\ IF stout = <<>> THEN TRUE ELSE stout[Len(stout)] # PingFrame
  /\ stout' = Append(stout, PingFrame)
  /\ UNCHANGED <<stpc, stsince, stfrom, mu, events, workflows, idemKeys, appenderVars,
                 engineVars, queueVars, consumerVars, workerVars, timerVars, futureVars, getterVars, lifeVars, recallVars>>

\* case <-ctx.Done(): the client went away.
StreamCtxDone ==
  /\ stpc = "loop"
  /\ stpc' = "returned"
  /\ UNCHANGED <<stsince, stout, stfrom, mu, events, workflows, idemKeys, appenderVars,
                 engineVars, queueVars, consumerVars, workerVars, timerVars, futureVars, getterVars, lifeVars, recallVars>>

Init ==
  /\ StoreInit /\ AppenderInit /\ EngineInit /\ QueueInit /\ ConsumerInit
  /\ ExecInit /\ WorkerInit /\ TimerInit /\ StreamInit /\ GetterInit /\ LifeInit

NextStore ==
  \E c \in Appenders :
    \/ AppendCall(c)
    \/ AppendLock(c)
    \/ AppendRead(c)
    \/ AppendWrite(c)
    \/ AppendUnlock(c)

SpecStore == Init /\ [][NextStore]_vars

\* The engine: concurrent starts, the workflow drivers they launch, and cancels.
NextEngine ==
  \/ \E c \in StartCalls :
       \/ StartCall(c)
       \/ StartSaveState(c)
       \/ StartAppendEvent(c)
  \/ \E w \in WorkflowIDs :
       \/ DriverGetState(w)
       \/ DriverSaveRunning(w)
       \/ DriverProgramReturns(w)
       \/ DriverAppendFinal(w)
       \/ DriverSaveFinal(w)
  \/ \E k \in CancelCalls :
       \/ CancelCall(k)
       \/ CancelSaveState(k)
       \/ CancelAppendEvent(k)

SpecEngine == Init /\ [][NextEngine]_vars

\* The queue with a producer, consumers, the visibility scanner and the clock.
NextQueue ==
  \/ ProducerEnqueue
  \/ \E c \in Consumers :
       \/ ConsumerDequeue(c)
       \/ ConsumerAck(c)
       \/ ConsumerNack(c)
  \/ \E t \in TaskIDs : ScanRedeliver(t)
  \/ Tick

SpecQueue == Init /\ [][NextQueue]_vars

\* The queue with consumers whose ctx may be done when they nack.
NextNack ==
  \/ NextQueue
  \/ \E c \in Consumers : ConsumerNackCtx(c)

SpecNack == Init /\ [][NextNack]_vars

\* The scanner goroutine started by NewInMemoryQueueWithOptions keeps
\* scanning, and the clock advances.
QueueFairness ==
  /\ WF_vars(Tick)
  /\ \A t \in TaskIDs : WF_vars(ScanRedeliver(t))

SpecQueueFair == SpecQueue /\ QueueFairness

\* Workflow 1's program scheduling activity "a1", the worker poll loops, the
\* queue's visibility scanner and the clock.
NextStream ==
  \/ LogAppend
  \/ StreamStart
  \/ StreamPoll
  \/ StreamHeartbeat
  \/ StreamCtxDone

SpecStream == Init /\ [][NextStream]_vars

NextWorker ==
  \/ \E t \in ExecCalls :
       \/ ExecCheckCompleted(t)
       \/ ExecRecheck(t)
       \/ ExecAppendScheduled(t)
       \/ ExecEnqueue(t)
  \/ \E t \in TaskIDs : ScanRedeliver(t)
  \/ \E w \in Workers :
       \/ WorkerDequeue(w)
       \/ WorkerLookup(w)
       \/ WorkerSaveRunning(w)
       \/ WorkerAppendStarted(w)
       \/ WorkerExecuteReturns(w)
       \/ WorkerSaveFinal(w)
       \/ WorkerAck(w)
       \/ WorkerNack(w)
  \/ Tick

SpecWorker == Init /\ [][NextWorker]_vars

\* The workers, with a program that repeats its ExecuteActivityWithID call.
NextReplay ==
  \/ NextWorker
  \/ \E t \in ExecCalls : ExecCallAgain(t)

SpecReplay == Init /\ [][NextReplay]_vars

\* The workers with a store whose writes can fail (the Redis store), every
\* task followed until a Nack drops it.
NextRetry ==
  \/ \E t \in ExecCalls :
       \/ ExecCheckCompleted(t)
       \/ ExecRecheck(t)
       \/ ExecAppendScheduled(t)
       \/ ExecEnqueue(t)
  \/ \E w \in Workers :
       \/ WorkerDequeueRetry(w)
       \/ WorkerLookup(w)
       \/ WorkerSaveRunning(w)
       \/ WorkerAppendStarted(w)
       \/ WorkerExecuteReturns(w)
       \/ WorkerExecuteFailsStoreDown(w)
       \/ WorkerSaveFinal(w)
       \/ WorkerSaveFinalFails(w)
       \/ WorkerAck(w)
       \/ WorkerNack(w)

SpecRetry == Init /\ [][NextRetry]_vars

\* One workflow whose program runs one activity, from StartWorkflow to the
\* final state, with the workers polling.
FlowCalls == {1}

NextFlow ==
  \/ \E c \in FlowCalls :
       \/ StartCall(c)
       \/ StartSaveState(c)
       \/ StartAppendEvent(c)
  \/ \E w \in WorkflowIDs :
       \/ DriverGetState(w)
       \/ DriverSaveRunning(w)
       \/ DriverAppendFinal(w)
       \/ DriverSaveFinal(w)
  \/ \E t \in ExecCalls : ProgramExecuteActivity(t)
  \/ PollActivityResult
  \/ ProgramGetReturns
  \/ \E w \in Workers :
       \/ WorkerDequeue(w)
       \/ WorkerLookup(w)
       \/ WorkerSaveRunning(w)
       \/ WorkerAppendStarted(w)
       \/ WorkerExecuteReturns(w)
       \/ WorkerSaveFinal(w)
       \/ WorkerAck(w)
       \/ WorkerNack(w)

SpecFlow == Init /\ [][NextFlow]_vars

\* The future of a1's call with the goroutines that set it and call Get on it.
FutureWorkers == {"w1"}

NextFuture ==
  \/ \E c \in FlowCalls :
       \/ StartCall(c)
       \/ StartSaveState(c)
       \/ StartAppendEvent(c)
  \/ \E w \in WorkflowIDs :
       \/ DriverGetState(w)
       \/ DriverSaveRunning(w)
       \/ DriverAppendFinal(w)
       \/ DriverSaveFinal(w)
  \/ \E t \in ExecCalls : ProgramExecuteActivity(t)
  \/ PollActivityResult
  \/ ProgramGetReturns
  \/ \E w \in FutureWorkers :
       \/ WorkerDequeue(w)
       \/ WorkerLookup(w)
       \/ WorkerSaveRunning(w)
       \/ WorkerAppendStarted(w)
       \/ WorkerExecuteReturns(w)
       \/ WorkerSaveFinal(w)
       \/ WorkerAck(w)
       \/ WorkerNack(w)
  \/ PollCtxDone
  \/ \E g \in Getters :
       \/ GetCall(g)
       \/ GetCtxDone(g)
       \/ GetReturns(g)

SpecFuture == Init /\ [][NextFuture]_vars

\* A workflow of one activity that succeeds, with a worker that is stopped,
\* replaced by a new one and started at any moment.
LifeEngineStep ==
  \/ \E c \in FlowCalls :
       \/ StartSaveState(c)
       \/ StartAppendEvent(c)
  \/ \E w \in WorkflowIDs :
       \/ DriverGetState(w)
       \/ DriverSaveRunning(w)
       \/ DriverAppendFinal(w)
       \/ DriverSaveFinal(w)
  \/ \E t \in ExecCalls : ProgramExecuteActivity(t)
  \/ PollActivityResult
  \/ ProgramGetReturns

LifeLoopStep(w) ==
  \/ LoopSelect(w)
  \/ LoopPollTimeout(w)
  \/ LoopDequeue(w)
  \/ WorkerLookup(w)
  \/ WorkerSaveRunning(w)
  \/ WorkerAppendStarted(w)
  \/ WorkerExecuteSucceeds(w)
  \/ WorkerSaveFinal(w)
  \/ WorkerAck(w)

NextLifecycle ==
  \/ \E c \in FlowCalls : StartCall(c)
  \/ LifeEngineStep
  \/ WorkerStart
  \/ WorkerStopCall
  \/ WorkerStopReturns
  \/ WorkerNew
  \/ \E w \in LifeLoops : LifeLoopStep(w)

\* Goroutines that can run do run; nothing obliges a client to call
\* StartWorkflow, Start, Stop or New.
LifecycleFairness ==
  /\ WF_vars(LifeEngineStep)
  /\ WF_vars(WorkerStopReturns)
  /\ \A w \in LifeLoops : WF_vars(LifeLoopStep(w))

SpecLifecycle == Init /\ [][NextLifecycle]_vars /\ LifecycleFairness

\* A workflow of one activity with poll loops that keep polling, one of them
\* ("w3") of a worker whose registry lacks the activity; without the scanner
\* a task is delivered until a Nack drops it.
PollingLoopStep(w) ==
  \/ WorkerDequeueRetry(w)
  \/ WorkerLookup(w)
  \/ WorkerSaveRunning(w)
  \/ WorkerAppendStarted(w)
  \/ WorkerExecuteReturns(w)
  \/ WorkerSaveFinal(w)
  \/ WorkerAck(w)
  \/ WorkerNack(w)

NextPolling ==
  \/ \E c \in FlowCalls : StartCall(c)
  \/ LifeEngineStep
  \/ \E w \in Workers : PollingLoopStep(w)

\* Goroutines that can run do run: the engine's and every poll loop.
PollingFairness ==
  /\ WF_vars(LifeEngineStep)
  /\ \A w \in Workers : WF_vars(PollingLoopStep(w))

SpecPolling == Init /\ [][NextPolling]_vars /\ PollingFairness

\* A program that calls ExecuteActivityWithID twice with the same ID, and a
\* poll loop.
NextRecall ==
  \/ \E t \in ExecCalls :
       \/ ExecCheckCompleted(t)
       \/ ExecRecheck(t)
       \/ ExecAppendScheduled(t)
       \/ ExecEnqueue(t)
  \/ RecallCheckCompleted
  \/ RecallRecheck
  \/ RecallAppendScheduled
  \/ \E w \in FutureWorkers :
       \/ WorkerDequeue(w)
       \/ WorkerLookup(w)
       \/ WorkerSaveRunning(w)
       \/ WorkerAppendStarted(w)
       \/ WorkerExecuteReturns(w)
       \/ WorkerSaveFinal(w)
       \/ WorkerAck(w)
       \/ WorkerNack(w)

SpecRecall == Init /\ [][NextRecall]_vars

\* One workflow whose program runs one activity, with two poll loops, their
\* cancel watchers and CancelWorkflow.
CancelWorkers == {"w1", "w2"}

NextCancel ==
  \/ \E c \in FlowCalls :
       \/ StartCall(c)
       \/ StartSaveState(c)
       \/ StartAppendEvent(c)
  \/ \E w \in WorkflowIDs :
       \/ DriverGetState(w)
       \/ DriverSaveRunning(w)
       \/ DriverAppendFinal(w)
       \/ DriverSaveFinal(w)
  \/ \E t \in ExecCalls : ProgramExecuteActivity(t)
  \/ PollActivityResult
  \/ ProgramGetReturns
  \/ \E k \in CancelCalls :
       \/ CancelCall(k)
       \/ CancelSaveState(k)
       \/ CancelAppendEvent(k)
  \/ \E w \in CancelWorkers :
       \/ WorkerDequeue(w)
       \/ WorkerLookup(w)
       \/ WorkerSaveRunning(w)
       \/ WorkerAppendStarted(w)
       \/ WorkerExecuteReturns(w)
       \/ WatcherCancels(w)
       \/ WorkerSaveFinal(w)
       \/ WorkerAck(w)
       \/ WorkerNack(w)

\* The watcher's ticker keeps firing while the execution lasts.
CancelFairness == \A w \in CancelWorkers : WF_vars(WatcherCancels(w))

SpecCancel == Init /\ [][NextCancel]_vars /\ CancelFairness

\* One Sleep of workflow 1's program, the engines' timer scanners and the clock.
SleepStep == SleepScheduleTimer \/ SleepAppendScheduled \/ SleepPollFindsFired

ScanStep(e) == ScanListDue(e) \/ ScanMarkFired(e) \/ ScanAppendFired(e) \/ ScanExit(e)

NextTimer ==
  \/ SleepStep
  \/ \E e \in Engines :
       \/ EngineNew(e)
       \/ EngineStop(e)
       \/ ScanStep(e)
  \/ Tick

\* Goroutines that can run do run, the clock advances, and the second engine
\* is constructed.
TimerFairness ==
  /\ WF_vars(Tick)
  /\ WF_vars(SleepStep)
  /\ WF_vars(EngineNew("e2"))
  /\ \A e \in Engines : WF_vars(ScanStep(e))

SpecTimer == Init /\ [][NextTimer]_vars /\ TimerFairness

\* The same with further ScheduleTimer calls on the store.
NextSchedule == NextTimer \/ ScheduleTimerCall

SpecSchedule == Init /\ [][NextSchedule]_vars

\* ----------------------------------------------------------------- claims

\* C1: for every workflow W and every interleaving of concurrent AppendEvent
\* calls, the k-th event stored in W's log has SequenceNum k (starts at 1,
\* strictly increasing, no gaps, no duplicates).
\* Every call that stored an event has its own entry: the log is as long as
\* the number of calls that stored one.
C1_SequenceContiguous ==
  \A w \in WorkflowIDs :
    /\ Len(events[w]) = appended[w]
    /\ \A k \in 1..Len(events[w]) : events[w][k].SequenceNum = k

\* C1 witness: two appends to one workflow were in flight together (one is
\* queued on the mutex while the other holds it) and the log has two events.
C1_Witness ==
  \E w \in WorkflowIDs :
    /\ Len(events[w]) >= 2
    /\ \E c, d \in Appenders :
         /\ c # d /\ aev[c].w = w /\ aev[d].w = w
         /\ apc[c] = "unlock" /\ apc[d] = "lock"

\* ---- helpers for the engine claims
CountType(w, t) == Len(SelectSeq(events[w], LAMBDA e : e.Type = t))

\* CancelWorkflow(w) has returned nil.
CancelReturned(w) == \E k \in CancelCalls : cwf[k] = w /\ cres[k] = "ok"

\* The events of w's log that the current step appends.
AppendedNow(w) == {events'[w][i] : i \in (Len(events[w]) + 1)..Len(events'[w])}

\* C2: once the stored Status of a workflow is Completed, Failed or Canceled,
\* no later step changes it (a driver finishing, or doing its
\* Pending-to-Running transition, after a cancel does not overwrite Canceled).
C2_TerminalStatusNeverChanges ==
  [][\A w \in WorkflowIDs :
       IsTerminal(workflows[w].Status) => workflows'[w].Status = workflows[w].Status]_vars

\* C3: after CancelWorkflow(W) has returned successfully, no
\* activity_scheduled, activity_started, workflow_completed or
\* workflow_failed event is appended to W's log.
C3_NoEventsAfterCancel ==
  [][\A w \in WorkflowIDs :
       CancelReturned(w) =>
         \A e \in AppendedNow(w) :
           e.Type \notin {EventActivityScheduled, EventActivityStarted,
                          EventWorkflowCompleted, EventWorkflowFailed}]_vars

\* Start calls that carry key, and the workflows they created a record or a
\* workflow_started event for.
CallsWithKey(key) == {c \in StartCalls : skey[c] = key /\ spc[c] \notin {"idle", "failed"}}
CreatedBy(cs) ==
  {w \in WorkflowIDs :
     /\ \E c \in cs : sid[c] = w
     /\ (WorkflowExists(workflows, w) \/ CountType(w, EventWorkflowStarted) > 0)}

EventsAbout(type, a) ==
  {i \in 1..Len(events[1]) : events[1][i].Type = type /\ events[1][i].Ref = a}

\* C5: for every ActivityID, at most one activity_completed event is in the
\* log, across all deliveries of its task, a redelivery processed
\* concurrently with the original delivery included.
C5_AtMostOneActivityCompleted ==
  \A a \in ActivityIDs : Cardinality(EventsAbout(EventActivityCompleted, a)) <= 1

\* C6: a worker that looks at a task whose stored Activity State is Completed
\* goes on to ack it with the stored Output as the successful task result,
\* and that step appends no event and leaves the Activity State unchanged (it
\* never reaches the activity's execution).
C6_CompletedTaskIsAckedFromCache ==
  [][\A w \in Workers :
       (/\ wpc[w] = "lookup"
        /\ wpc'[w] # "lookup"
        /\ activities[tasks[wtask[w]].ActivityID].Status = StatusCompleted)
       => /\ wpc'[w] = "ack"
          /\ wres'[w] = TaskResult(TRUE, activities[tasks[wtask[w]].ActivityID].Output, "-")
          /\ events' = events
          /\ activities' = activities]_vars

\* C7: once the stored Activity State of an ActivityID is Completed, every
\* later stored state of that ID is Completed with the same Output, also when
\* a concurrent delivery fails or returns another output.
C7_CompletedStateIsFinal ==
  [][\A a \in ActivityIDs :
       activities[a].Status = StatusCompleted =>
         /\ activities'[a].Status = StatusCompleted
         /\ activities'[a].Output = activities[a].Output]_vars

\* C8: for every timer, among the MarkTimerFired calls of all scanners
\* exactly one returns transitioned=true (none when no call has run), and at
\* most one timer_fired event with its TimerID is in the log.
C8_TimerFiresOnce ==
  \A tm \in TimerIDs :
    /\ marked[tm] = (IF markCalls[tm] >= 1 THEN 1 ELSE 0)
    /\ Cardinality(EventsAbout(EventTimerFired, tm)) <= 1

\* C8 witness: two MarkTimerFired calls have run for one timer, from the
\* scanners of two engines, and its timer_fired event is in the log.
C8_Witness ==
  \E tm \in TimerIDs :
    /\ markCalls[tm] >= 2
    /\ estate["e2"] = "running"
    /\ EventsAbout(EventTimerFired, tm) # {}

\* C9: every timer persisted by Sleep eventually has a timer_fired event with
\* its TimerID in the log (the clock passes its FireAt and engine e2's
\* scanner keeps running), also when engine e1 is stopped at any point.
C9_PersistedTimerEventuallyFires ==
  \A tm \in TimerIDs :
    timers[tm].exists ~> (EventsAbout(EventTimerFired, tm) # {})

\* C10: between a Dequeue that returns task T and the first of Ack(T), Nack(T)
\* or the expiry of T's visibility deadline, no other Dequeue returns T: while
\* the lease of T's last delivery is open and its deadline has not passed, no
\* step delivers T (a delivery is what increments T's Attempts).
C10_NoRedeliveryWhileVisible ==
  [][\A t \in TaskIDs :
       (lease[t].open /\ now <= lease[t].until) =>
         tasks'[t].Attempts = tasks[t].Attempts]_vars

\* C12: after a failed execution the worker nacks with requeue =
\* (task.Attempts < MaxAttempts of the activity's retry policy), seen on an
\* inflight task as the task going back to the channel or not; after a
\* successful one it goes on to ack.
C12_RequeueFollowsRetryPolicy ==
  [][\A w \in Workers :
       /\ (wpc[w] = "save_final" /\ wpc'[w] # "save_final") =>
            wpc'[w] = (IF wres[w].Success THEN "ack" ELSE "nack")
       /\ (/\ wpc[w] = "nack" /\ wpc'[w] = "idle"
           /\ wres[w].Error \in Errors
           /\ pending[wtask[w]].inflight) =>
            ((Len(ready') = Len(ready) + 1)
               <=> (tasks[wtask[w]].Attempts < RetryPolicy.MaxAttempts))]_vars

\* C13: when a worker's Nack after a failed execution puts the activity task
\* back in the channel (requeue=true), the workflow's log holds an activity_retrying event for
\* that activity at the latest when the Nack has returned.
C13_RetryingEventOnRequeue ==
  [][\A w \in Workers :
       (/\ wpc[w] = "nack" /\ wpc'[w] = "idle"
        /\ wres[w].Error \in Errors
        /\ Len(ready') = Len(ready) + 1) =>
         \E i \in 1..Len(events'[tasks[wtask[w]].WorkflowID]) :
           /\ events'[tasks[wtask[w]].WorkflowID][i].Type = EventActivityRetrying
           /\ events'[tasks[wtask[w]].WorkflowID][i].Ref = tasks[wtask[w]].ActivityID]_vars

\* C14: when the activity returned an error that its retry policy lists as
\* non-retryable, the worker's Nack does not put the task back in the channel
\* (so no later delivery executes the activity again).
C14_NonRetryableErrorNotRequeued ==
  [][\A w \in Workers :
       (/\ wpc[w] = "nack" /\ wpc'[w] = "idle"
        /\ wres[w].Error \in Errors
        /\ ~IsRetryable(RetryPolicy, wres[w].Error)) =>
         Len(ready') = Len(ready)]_vars

\* ---- helpers for the log/state claims
TerminalEvents == {EventWorkflowCompleted, EventWorkflowFailed, EventWorkflowCanceled}

LastEventIsTerminal(w) ==
  Len(events[w]) > 0 /\ events[w][Len(events[w])].Type \in TerminalEvents

\* An engine call is between its two store writes for w: StartWorkflow and
\* CancelWorkflow save the state and then append, executeWorkflow appends and
\* then saves.
BetweenWrites(w) ==
  \/ dpc[w] = "final_save"
  \/ \E c \in StartCalls : sid[c] = w /\ spc[c] = "append"
  \/ \E k \in CancelCalls : cwf[k] = w /\ cpc[k] = "append"

\* StartWorkflow had appended workflow_started before any other event of w.
StartedFirst(w) == Len(events[w]) > 0 /\ events[w][1].Type = EventWorkflowStarted

\* C15: for every stored workflow, the last event of its log is a terminal
\* event iff its stored Status is terminal (looked at outside the window
\* between the two store writes of one engine call, for a workflow whose
\* start was not overtaken by a cancel).
C15_TerminalEventIffTerminalStatus ==
  \A w \in WorkflowIDs :
    (WorkflowExists(workflows, w) /\ StartedFirst(w) /\ ~BetweenWrites(w)) =>
      (LastEventIsTerminal(w) <=> IsTerminal(workflows[w].Status))

\* C16: after every AppendEvent for a workflow whose state record exists,
\* the stored LastEventSeq is the SequenceNum of the last event of its log.
C16_LastEventSeqFollowsLog ==
  [][\A w \in WorkflowIDs :
       (events'[w] # events[w] /\ WorkflowExists(workflows', w)) =>
         workflows'[w].LastEventSeq = events'[w][Len(events'[w])].SequenceNum]_vars

\* C17: a CancelWorkflow call that finds the stored Status terminal returns
\* an error, and one that finds no state returns not-found; either way the
\* call is over, and it has appended no event and changed no stored state.
C17_CancelOfTerminalOrUnknownFails ==
  [][\A k \in CancelCalls :
       (cpc[k] = "idle" /\ cpc'[k] # "idle") =>
         /\ (WorkflowExists(workflows, cwf'[k]) /\ IsTerminal(workflows[cwf'[k]].Status)) =>
              /\ cres'[k] = "already_completed"
              /\ cpc'[k] = "done"
              /\ events' = events /\ workflows' = workflows
         /\ ~WorkflowExists(workflows, cwf'[k]) =>
              /\ cres'[k] = "not_found"
              /\ cpc'[k] = "done"
              /\ events' = events /\ workflows' = workflows]_vars

\* C17 witness: CancelWorkflow was refused for a workflow the driver had
\* finished, whose state and log are as the driver left them.
C17_Witness ==
  \E k \in CancelCalls :
    /\ cres[k] = "already_completed"
    /\ workflows[cwf[k]].Status \in {StatusCompleted, StatusFailed}
    /\ LastEventIsTerminal(cwf[k])
    /\ CountType(cwf[k], EventWorkflowCanceled) = 0

\* The event frames written to the stream, in the order written.
WrittenEvents == SelectSeq(stout, LAMBDA f : f.kind = "event")

\* The sequence numbers stored for the streamed workflow above the resume point.
StoredAfterResume ==
  {events[StreamWorkflow][i].SequenceNum : i \in 1..Len(events[StreamWorkflow])}
    \ (0..stfrom)

\* C18: for any resume point since, the stream writes the stored events with
\* SequenceNum > since in strictly increasing id order, each exactly once and
\* none skipped, as they are stored; the first id written is the smallest
\* stored SequenceNum greater than since; and a poll that leaves the stream
\* open has written every event stored above the resume point.
C18_ResumeWritesNewEventsInOrderOnce ==
  /\ [](LET ids == WrittenEvents
        IN /\ \A i \in 1..Len(ids) :
                /\ ids[i].id \in StoredAfterResume
                /\ events[StreamWorkflow][ids[i].id].Type = ids[i].type
                /\ i > 1 => ids[i - 1].id < ids[i].id
                /\ \A n \in StoredAfterResume :
                     n < ids[i].id => \E j \in 1..(i - 1) : ids[j].id = n
           /\ Len(ids) > 0 =>
                \A n \in StoredAfterResume : ids[1].id <= n)
  /\ [][(stpc = "loop" /\ stpc' = "loop" /\ WrittenEvents' # WrittenEvents) =>
          \A n \in StoredAfterResume' :
            \E j \in 1..Len(WrittenEvents') : WrittenEvents'[j].id = n]_vars

\* A stream resumed after the first event has written two later events.
C18_Witness ==
  /\ stfrom = 1
  /\ Len(WrittenEvents) >= 2
  /\ WrittenEvents[1].id = 2

\* C19: a terminal event written to the stream is followed at once by the
\* done frame, which is the last frame; the function has returned, and no
\* event with a larger sequence number is on the stream.
C19_TerminalEventEndsStream ==
  \A i \in 1..Len(stout) :
    (stout[i].kind = "event" /\ stout[i].type \in TerminalEvents) =>
      /\ i + 1 = Len(stout)
      /\ stout[i + 1] = DoneFrame
      /\ stpc = "returned"
      /\ \A j \in 1..Len(stout) :
           stout[j].kind = "event" => stout[j].id <= stout[i].id

\* The stream ended on a terminal event while a later event is stored.
C19_Witness ==
  /\ stpc = "returned"
  /\ Len(stout) >= 2
  /\ stout[Len(stout)] = DoneFrame
  /\ stout[Len(stout) - 1].type \in TerminalEvents
  /\ Len(events[StreamWorkflow]) > stout[Len(stout) - 1].id

\* C20: for every idempotency key K the first MapIdempotencyKeyToWorkflow(K, id)
\* reports created and maps K to id; every later call with K, whatever its id
\* and whichever concurrent caller makes it, reports not created together
\* with the first id and leaves the mapping unchanged; a mapped key keeps its
\* WorkflowID for ever.
C20_FirstMappingWins ==
  /\ [][\A c \in StartCalls :
          (spc[c] = "idle" /\ spc'[c] \notin {"idle", "failed"} /\ skey'[c] \in Keys) =>
            IF idemKeys[skey'[c]] = NoWorkflow
              THEN /\ spc'[c] = "save"
                   /\ sret'[c] = NoWorkflow
                   /\ idemKeys' = [idemKeys EXCEPT ![skey'[c]] = sid'[c]]
              ELSE /\ spc'[c] = "done"
                   /\ sret'[c] = idemKeys[skey'[c]]
                   /\ sret'[c] # sid'[c]
                   /\ idemKeys' = idemKeys]_vars
  /\ [][\A k \in Keys : idemKeys[k] # NoWorkflow => idemKeys'[k] = idemKeys[k]]_vars

\* While the first caller with a key is still between its store calls, a
\* second caller with the same key and another id got the first id back.
C20_Witness ==
  \E c, d \in StartCalls :
    /\ c # d /\ skey[c] \in Keys /\ skey[d] = skey[c]
    /\ spc[c] \in {"save", "append"}
    /\ spc[d] = "done"
    /\ sid[d] # sid[c]
    /\ sret[d] = sid[c]
    /\ idemKeys[skey[c]] = sid[c]

\* The number of times task t is in the channel's buffer.
InReady(t) == Cardinality({i \in 1..Len(ready) : ready[i] = t})

\* C21: Ack or Nack of a task ID that is not inflight (already acked or
\* nacked, or moved back to the channel by the scanner) returns the not-found
\* error and changes neither the channel, the inflight set nor the DLQ.
C21_AckNackOfNotInflightFails ==
  [][\A c \in Consumers :
       (held[c] # NoTask /\ held'[c] = NoTask /\ ~pending[held[c]].inflight) =>
         /\ qres'[c] = "not_found"
         /\ ready' = ready
         /\ pending' = pending
         /\ dlq' = dlq]_vars

\* A consumer got not-found for the task it held while the task, moved back
\* by the scanner or by another consumer's Nack, waits in the channel.
C21_Witness ==
  \E c \in Consumers :
    /\ qres[c] = "not_found"
    /\ held[c] = NoTask
    /\ \E t \in TaskIDs : InReady(t) = 1 /\ ~pending[t].inflight /\ tasks[t].Attempts >= 1
    /\ dlq = <<>>

\* Task t is alive and neither in the channel nor inflight.
OutOfQueue(t) ==
  tasks[t] # NoTaskRec /\ tasks[t].Attempts >= 1 /\ InReady(t) = 0 /\ ~pending[t].inflight

\* C22: Nack of an inflight task removes it from inflight; with requeue=true
\* the task is in the channel again (from where a Dequeue returns it with
\* Attempts incremented, C11); with requeue=false it is out of the queue for
\* good and is appended to the DLQ exactly when EnableDLQ is set.
C22_NackRequeuesOrDrops ==
  /\ [][\A c \in Consumers, t \in TaskIDs :
            (held[c] = t /\ held'[c] = NoTask /\ pending[t].inflight
               /\ qres'[c] \in NackResults) =>
              /\ ~pending'[t].inflight
              /\ qres'[c] # "dropped" =>
                   /\ InReady(t)' = 1
                   /\ ready' = Append(ready, t)
                   /\ dlq' = dlq
              /\ qres'[c] = "dropped" =>
                   /\ OutOfQueue(t)'
                   /\ dlq' = (IF enableDLQ THEN Append(dlq, t) ELSE dlq)]_vars
  /\ [][\A t \in TaskIDs :
          OutOfQueue(t) => OutOfQueue(t)' /\ tasks'[t] = tasks[t]]_vars

\* The event types of workflow w's log, in order.
LogTypes(w) == [i \in 1..Len(events[w]) |-> events[w][i].Type]

\* The log of a workflow that runs one activity once, without failure.
OneActivityLog ==
  <<EventWorkflowStarted, EventActivityScheduled, EventActivityStarted,
    EventActivityCompleted, EventWorkflowCompleted>>

\* No delivery of the activity's task has failed and none was repeated.
NoFailureSoFar ==
  /\ \A t \in TaskIDs : tasks[t].Attempts <= 1
  /\ EventsAbout(EventActivityFailed, "a1") = {}
  /\ \A k \in CancelCalls : cpc[k] = "idle"

\* C23: for a workflow whose program runs exactly one activity, with workers
\* polling, no failure and no cancel, the log grows as workflow_started,
\* activity_scheduled, activity_started, activity_completed,
\* workflow_completed, and once executeWorkflow has returned the log is
\* exactly these five and the stored state is Completed with the activity's
\* output.
C23_OneActivityHappyPath ==
  NoFailureSoFar =>
    /\ Len(events[1]) <= Len(OneActivityLog)
    /\ LogTypes(1) = SubSeq(OneActivityLog, 1, Len(events[1]))
    /\ dpc[1] = "done" =>
         /\ LogTypes(1) = OneActivityLog
         /\ workflows[1].Status = StatusCompleted
         /\ activities["a1"].Status = StatusCompleted
         /\ workflows[1].Output = activities["a1"].Output

\* The workflow ran to its end on one delivery of the task.
C23_Witness ==
  /\ NoFailureSoFar
  /\ dpc[1] = "done"
  /\ Len(events[1]) = 5
  /\ workflows[1].Output \in Outputs
  /\ \A t \in ExecCalls : tasks[t].Attempts = 1 /\ OutOfQueue(t)

\* C26: for each ActivityID at most one activity_started event is in the
\* log, across all deliveries of its task, duplicate deliveries processed
\* concurrently by different poll loops included.
C26_AtMostOneActivityStarted ==
  \A a \in ActivityIDs : Cardinality(EventsAbout(EventActivityStarted, a)) <= 1

\* C28: the Attempt recorded in an Activity State never decreases; when a
\* worker has finished processing a delivery of the task the stored Attempt
\* is at least the number of that delivery; and an activity that failed on an
\* earlier delivery and is Completed has Attempt >= 2.
C28_AttemptFollowsDeliveries ==
  /\ [][\A a \in ActivityIDs :
          ActivityExists(activities, a) => activities'[a].Attempt >= activities[a].Attempt]_vars
  /\ [][\A w \in Workers, t \in TaskIDs :
          (wtask[w] = t /\ wpc[w] = "save_final" /\ wpc'[w] # "save_final") =>
            activities'[tasks[t].ActivityID].Attempt >= tasks[t].Attempts]_vars
  /\ [](\A a \in ActivityIDs :
          (activities[a].Status = StatusCompleted /\ EventsAbout(EventActivityFailed, a) # {}) =>
            activities[a].Attempt >= 2)

\* C25: ExecuteActivityWithID with an ID whose Activity State is Completed
\* returns a future that is already resolved with the stored Output, builds
\* and enqueues no task and appends no event; the call is over at that point.
C25_CompletedActivityServedFromCache ==
  /\ [][\A t \in ExecCalls :
          (epc[t] \in {"idle", "enqueued", "cached"} /\ (epc'[t] # epc[t] \/ fut' # fut)
             /\ activities["a1"].Status = StatusCompleted) =>
            /\ epc'[t] = "cached"
            /\ fut' = [state |-> "resolved", value |-> activities["a1"].Output]
            /\ ready' = ready /\ pending' = pending /\ tasks' = tasks
            /\ events' = events
            /\ activities' = activities]_vars
  /\ [][\A t \in ExecCalls :
          epc[t] = "cached" => epc'[t] = "cached"]_vars

\* A repeated call was served from the cache: the activity was scheduled
\* once, and the task is out of the queue.
C25_Witness ==
  \E t \in ExecCalls :
    /\ epc[t] = "cached"
    /\ fut.state = "resolved" /\ fut.value \in Outputs
    /\ Cardinality(EventsAbout(EventActivityScheduled, "a1")) = 1
    /\ OutOfQueue(t)

\* C29: when persisting an activity's failure failed in the store (the
\* activity_failed event or the Failed Activity State), the worker's Nack of
\* that delivery requeues the task, whatever its attempt count.
C29_FailedPersistenceRequeues ==
  [][\A w \in Workers, t \in TaskIDs :
       (/\ wtask[w] = t
        /\ wpc[w] = "nack" /\ wpc'[w] = "idle"
        /\ wperr[w] = tasks[t].Attempts
        /\ pending[t].inflight) =>
         ready' = Append(ready, t)]_vars

\* C24: if the stored Status of a workflow becomes Canceled while one of its
\* activities is executing in a worker, that execution's context is
\* eventually canceled by the watcher (or the execution has ended before).
C24_WatcherCancelsExecution ==
  \A w \in Workers :
    (wpc[w] = "execute" /\ wctx[w] = "live_owed")
      ~> (wctx[w] = "canceled" \/ wpc[w] # "execute")

\* C27: a future is set at most once: it goes from Pending to Resolved or
\* Failed and then never changes, so IsReady stays true; every Get that
\* returns an outcome returns the one the future holds, whenever it is called;
\* a Get that returns while the future is still Pending returns its context's
\* error, and no Get changes the future.
C27_FutureSetOnce ==
  [][/\ (fut.state = "pending" /\ fut' # fut) => IsReady(fut')
     /\ IsReady(fut) => (fut' = fut /\ IsReady(fut'))
     /\ \A g \in Getters :
          /\ (gpc[g] = "select" /\ gpc'[g] = "idle") =>
               /\ fut' = fut
               /\ ~IsReady(fut) => (gctx[g] = "done" /\ gret'[g].kind = "ctx")
               /\ gret'[g].kind # "ctx" => gret'[g] = GetResult(fut)
          /\ gret'[g].kind \in {"value", "error"} =>
               (IsReady(fut') /\ gret'[g] = GetResult(fut'))]_vars

\* One getter's ctx was canceled while the future was pending and its Get
\* returned the context error; the future was set afterwards, the other getter
\* has its outcome and the first one is in a later Get.
C27_Witness ==
  /\ IsReady(fut)
  /\ gret["g1"] = GetResult(fut)
  /\ gret["g2"].kind = "ctx"
  /\ gpc["g2"] = "select"

\* C30: a ScheduleTimer call for a timer that already exists leaves the
\* store's timers as they are, whatever fireAt it carries; and a timer that
\* has fired keeps Fired = true and its FireAt in every step, so no
\* ScheduleTimer call re-arms it and ListDueTimers never returns it again.
C30_ScheduleTimerExistingIsNoOp ==
  [][/\ (schedLast' # schedLast /\ schedLast'.found.exists) => timers' = timers
     /\ \A tm \in TimerIDs :
          timers[tm].Fired =>
            /\ timers'[tm] = timers[tm]
            /\ \A t \in 0..MaxTime : tm \notin ListDueTimers(timers', t)]_vars

\* ScheduleTimer was called with another fireAt for a timer that had fired,
\* and the timer is as the call found it.
C30_Witness ==
  /\ schedLast.found.exists
  /\ schedLast.found.Fired
  /\ schedLast.fireAt # schedLast.found.FireAt
  /\ timers[schedLast.tm] = schedLast.found

C10_Witness ==
  \E t \in TaskIDs :
    /\ pending[t].inflight
    /\ tasks[t].Attempts = 2
    /\ \E c, d \in Consumers : c # d /\ held[c] = t /\ held[d] = t


\* The driver of w has not read the workflow state yet (it is not launched, or
\* it is in its 10 ms grace before GetWorkflowState).
DriverNotRead(w) == dpc[w] \in {"none", "get"}

\* No ExecuteActivity call of w's program has left a trace: no
\* activity_scheduled event, no task built or enqueued, no future.
NothingScheduled(w) ==
  /\ CountType(w, EventActivityScheduled) = 0
  /\ \A t \in TaskIDs : tasks[t].WorkflowID # w
  /\ \A t \in ExecCalls : epc[t] = "idle"

\* C31: once CancelWorkflow(w) has returned nil while the driver of w has not
\* read the workflow state, then from that moment on the driver never gets
\* past its Canceled test (the program is never invoked), no activity is
\* scheduled or enqueued for w, and the stored Status of w is Canceled.
C31_CancelBeforeDriverReads ==
  \A w \in FlowCalls :
    []((CancelReturned(w) /\ DriverNotRead(w)) =>
         [](/\ dpc[w] \in {"none", "get", "done"}
            /\ NothingScheduled(w)
            /\ workflows[w].Status = StatusCanceled))

\* CancelWorkflow returned nil, and the driver, launched by a start that had
\* appended workflow_started, has read Canceled and returned without a
\* terminal event of its own.
C31_Witness ==
  /\ CancelReturned(1)
  /\ dpc[1] = "done"
  /\ CountType(1, EventWorkflowStarted) = 1
  /\ CountType(1, EventWorkflowCompleted) + CountType(1, EventWorkflowFailed) = 0
  /\ workflows[1].Status = StatusCanceled


\* No poll loop of the worker is alive.
NoLoopAlive == \A w \in LifeLoops : wloop[w] = "off"

\* A worker made by New after the last Stop is started, found tasks in the
\* ready buffer when it was started, and has not been stopped.
StartedOnBacklog == running /\ stopCh = "open" /\ lret = "started" /\ lbacklog > 0

\* C32: while no poll loop is alive the ready buffer only grows (a task that
\* is enqueued stays ready); and when a worker that is started on the queue
\* finds such tasks and is not stopped again, the workflow that scheduled
\* them (its activity does not fail) eventually has Status Completed.
C32_BacklogWaitsAndCompletes ==
  /\ [][NoLoopAlive =>
          (Len(ready') >= Len(ready) /\ SubSeq(ready', 1, Len(ready)) = ready)]_vars
  /\ \A w \in FlowCalls :
       (<>[]StartedOnBacklog) => <>(workflows[w].Status = StatusCompleted)

\* The new worker was started on a ready buffer that held the task, and the
\* workflow is Completed.
C32_Witness ==
  /\ StartedOnBacklog
  /\ workflows[1].Status = StatusCompleted
  /\ \A t \in TaskIDs : tasks[t].Attempts = 1


\* The deliveries of activity a's task have used up the worker's retries: the
\* attempt in hand is the one after which pollOnce does not requeue.
RetriesExhausted(a) ==
  \E t \in TaskIDs : tasks[t].ActivityID = a /\ tasks[t].Attempts >= WorkerMaxAttempts

\* C33: no step stores a Failed Activity State, and no step fails the
\* activity's future, while the task's attempts are below the worker's
\* maximum: a failed attempt that is requeued leaves the state non-terminal,
\* and the future fails only after the attempt that exhausts the retries.
C33_FutureFailsOnlyWhenExhausted ==
  [][/\ \A a \in ActivityIDs :
          (activities'[a].Status = StatusFailed /\ activities[a].Status # StatusFailed)
            => RetriesExhausted(a)
     /\ (fut.state = "pending" /\ fut'.state = "failed") => RetriesExhausted("a1")]_vars


\* C34: with poll loops that keep polling the queue, the future of an
\* ExecuteActivity call is eventually resolved or failed, and the workflow
\* whose program waits for it eventually has a terminal Status, also when a
\* loop that takes the task has no activity of that name in its registry.
C34_FutureEventuallyResolves ==
  /\ (fut.state = "pending") ~> IsReady(fut)
  /\ \A w \in FlowCalls : (dpc[w] = "execute") ~> IsTerminal(workflows[w].Status)


\* C35: at the step in which a StartWorkflowWithOptions call returns a
\* WorkflowID (its own, or the one an already-mapped idempotency key gives),
\* the store holds a Workflow State for that ID and its log holds a
\* workflow_started event.
C35_ReturnedIDIsStored ==
  [][\A c \in StartCalls :
       (sret[c] = NoWorkflow /\ sret'[c] # NoWorkflow) =>
         /\ WorkflowExists(workflows', sret'[c])
         /\ \E i \in 1..Len(events'[sret'[c]]) :
              events'[sret'[c]][i].Type = EventWorkflowStarted]_vars


\* C36: in every workflow log a terminal event (workflow_completed,
\* workflow_failed, workflow_canceled) is the last event of the log, so the
\* log holds at most one of them and nothing follows it.
C36_TerminalEventIsLastAndOnly ==
  \A w \in WorkflowIDs :
    \A i \in 1..Len(events[w]) :
      events[w][i].Type \in TerminalEvents => i = Len(events[w])


\* C37: for each ActivityID the log holds at most one activity_scheduled
\* event, however often ExecuteActivityWithID is called with that ID and
\* whether or not a worker has created the Activity State by then.
C37_AtMostOneActivityScheduled ==
  \A a \in ActivityIDs : Cardinality(EventsAbout(EventActivityScheduled, a)) <= 1


\* In w's log every event of type `later` about activity a has an event of
\* type `earlier` about a before it.
Precedes(w, earlier, later, a) ==
  \A j \in 1..Len(events[w]) :
    (events[w][j].Type = later /\ events[w][j].Ref = a) =>
      \E i \in 1..(j - 1) : events[w][i].Type = earlier /\ events[w][i].Ref = a

\* For each ActivityID: scheduled before started, started before every
\* completed or failed.
ActivityEventsInOrder(w) ==
  \A a \in ActivityIDs :
    /\ Precedes(w, EventActivityScheduled, EventActivityStarted, a)
    /\ Precedes(w, EventActivityStarted, EventActivityCompleted, a)
    /\ Precedes(w, EventActivityStarted, EventActivityFailed, a)

\* C38: in every workflow log workflow_started is the first event, and for
\* each ActivityID activity_scheduled precedes activity_started, which
\* precedes every activity_completed and activity_failed of that ID.
C38_LogOrder ==
  \A w \in WorkflowIDs :
    Len(events[w]) > 0 =>
      /\ events[w][1].Type = EventWorkflowStarted
      /\ ActivityEventsInOrder(w)


\* Task t is in the ready channel or inflight.
InQueue(t) == InReady(t) >= 1 \/ pending[t].inflight

\* C39: a task that is ready or inflight stays ready or inflight in every
\* step, except the step in which its holder's Ack succeeds or its holder's
\* Nack with requeue=false takes it out (a Nack with requeue=true and a
\* visibility redelivery keep it in the queue).
C39_QueueNeverLosesTask ==
  [][\A t \in TaskIDs :
       (InQueue(t) /\ ~InQueue(t)') =>
         \E c \in Consumers :
           held[c] = t /\ held'[c] = NoTask /\ qres'[c] \in {"ok", "dropped"}]_vars


\* C40: in every step of any sequence of Start and Stop calls on a worker:
\* no call panics; Start fails only when the worker is running; Stop on a
\* worker that is not running changes nothing; and a poll loop returns only
\* when the worker is not running, so the loops launched by a Start that
\* follows a Stop keep polling until the next Stop.
C40_StartStopSequences ==
  [][/\ lret' # "panic"
     /\ (lret' = "already_running" /\ lret # "already_running") => running
     /\ (lret' = "noop" /\ lret # "noop") =>
          (~running /\ running' = running /\ stopCh' = stopCh /\ wloop' = wloop)
     /\ \A w \in LifeLoops :
          (wloop[w] # "off" /\ wloop'[w] = "off") => ~running]_vars

====
